---- MODULE Spec2Model ----
(***************************************************************************)
(* Model of the nd-super-nodes backend: SuperLoraLoader.load_loras         *)
(* (src/backend/super_lora_node.py), the LoRA helpers it calls             *)
(* (src/backend/lora_utils.py), the civitai_info endpoint                  *)
(* (src/backend/web_api.py), NdSuperPromptBuilder.build_prompt             *)
(* (src/backend/nd_super_prompt_node.py), PromptManager                    *)
(* (src/backend/prompt_manager.py) and the template and prompt endpoints   *)
(* of src/backend/web_api.py.                                              *)
(*                                                                         *)
(* Python values are tagged pairs <<tag, text>> so that values of          *)
(* different Python types stay comparable: <<"str", s>>, <<"num", f>>      *)
(* (f a float literal such as "0.5"), <<"bool", "True">>, <<"none", "">>.  *)
(* A dict is a function from its keys to such values; kwargs is the        *)
(* ordered sequence of (key, value) items of the call.                     *)
(*                                                                         *)
(* available is super_lora_node.COMFYUI_AVAILABLE, fixed when the module   *)
(* is imported; header is the safetensors header of the file t.st on disk. *)
(***************************************************************************)
EXTENDS Integers, Sequences, FiniteSets, TLC

VARIABLES kwargs, model, result, available, header,
          history, favorites, templates, lora_templates, files, now

\* the PromptManager instance of the web API, the files it persists to, the
\* LoRA template store and the clock the record ids are taken from
stores == <<history, favorites, templates, lora_templates, files, now>>

vars == <<kwargs, model, result, available, header, stores>>

----------------------------------------------------------------------------
(* Bounds of the model *)

\* most structured widget values in one call
MaxEntries == 2
\* most keyword arguments in one call of the legacy-format specification
MaxLegacy == 3
\* largest max_words of an extract_trigger_words call (its default is 3)
MaxWords == 3
\* most segments in one prompt bundle
MaxSegments == 2

\* requests the web API serves in one run
MaxClock == 2

----------------------------------------------------------------------------
(* Python values *)

NoneV == <<"none", "">>
TrueV == <<"bool", "True">>
FalseV == <<"bool", "False">>
Absent == <<"absent", "">>

Str(s) == <<"str", s>>
Num(f) == <<"num", f>>

\* strings float() accepts, with the float they denote
NumericStrings == {"0", "0.5"}

ParseFloat(s) == IF s = "0" THEN "0.0" ELSE s

\* float(v) raises ValueError / TypeError
FloatRaises(v) ==
    \/ v[1] = "none"
    \/ v[1] = "str" /\ v[2] \notin NumericStrings

\* float(v) when it does not raise
FloatOf(v) ==
    CASE v[1] = "num" -> v[2]
      [] v[1] = "bool" -> (IF v[2] = "True" THEN "1.0" ELSE "0.0")
      [] OTHER -> ParseFloat(v[2])

\* bool(v)
Truthy(v) ==
    CASE v[1] = "none" -> FALSE
      [] v[1] = "bool" -> v[2] = "True"
      [] v[1] = "num" -> v[2] # "0.0"
      [] OTHER -> v[2] # ""

\* str(v)
StrOf(v) ==
    CASE v[1] = "none" -> "None"
      [] OTHER -> v[2]

\* s.strip()
Strip(s) ==
    CASE s = " " -> ""
      [] s = " tw " -> "tw"
      [] s = " rb " -> "rb"
      [] s = " cat" -> "cat"
      [] s = " ta " -> "ta"
      [] OTHER -> s

\* s.lower()
Lower(s) ==
    CASE s = "A.ST" -> "a.st"
      [] s = "None" -> "none"
      [] OTHER -> s

\* int(s) raises ValueError
IntRaises(s) == s \notin {"1", "2", "3", "4"}

\* int(s) when it does not raise
IntOf(s) ==
    CASE s = "1" -> 1
      [] s = "2" -> 2
      [] s = "3" -> 3
      [] OTHER -> 4

\* a or b
Or(a, b) == IF Truthy(a) THEN a ELSE b

\* d.get(k, default)
Get(d, k, default) == IF k \in DOMAIN d THEN d[k] ELSE default

\* ", ".join(words)
RECURSIVE Join(_)
Join(words) ==
    IF Len(words) = 0 THEN ""
    ELSE IF Len(words) = 1 THEN words[1]
    ELSE words[1] \o ", " \o Join(Tail(words))

----------------------------------------------------------------------------
(* The host environment: ComfyUI's folder_paths, the files on disk, their  *)
(* safetensors metadata, the LoraLoader and the CivitAI service.           *)

\* folder_paths.get_folder_paths("loras")
lora_dirs == <<"/r1", "/r2">>

\* os.path.join(d, rel)
PathJoin(d, rel) == d \o "/" \o rel

\* folder_paths.get_filename_list("loras"): relative names over all roots
filename_list == <<"a.st", "b.st", "c.st", "x.st", "e.st", "t.st">>

\* os.path.exists: the files, and the root directories themselves, which is
\* what a root joined with the empty name gives
ExistingFiles ==
    {"/r1/a.st", "/r1/b.st", "/r1/c.st", "/r1/x.st", "/r2/e.st", "/r1/t.st",
     "/r1/", "/r2/"}

Exists(path) == path \in ExistingFiles

\* os.path.isabs
IsAbs(path) == path \in {PathJoin(lora_dirs[d], filename_list[n]) :
                           d \in DOMAIN lora_dirs, n \in DOMAIN filename_list}

\* a value json.loads returns: a number, a string, null, a list or a map;
\* items holds the (key, value) pairs of a map in document order and the
\* elements of a list under the key ""
JNum(n) == [kind |-> "num", num |-> n, text |-> "", items |-> <<>>]
JStr(s) == [kind |-> "str", num |-> 0, text |-> s, items |-> <<>>]
JNull == [kind |-> "null", num |-> 0, text |-> "", items |-> <<>>]
JList(elems) ==
    [kind |-> "list", num |-> 0, text |-> "",
     items |-> [n \in DOMAIN elems |-> <<"", elems[n]>>]]
JMap(pairs) == [kind |-> "map", num |-> 0, text |-> "", items |-> pairs]

\* a value of the metadata mapping.  A str is described by what the code
\* does with it: whether json.loads accepts it, the value json.loads
\* returns, and segs, its comma-separated pieces, each the sequence of its
\* whitespace-separated tokens.  Other types carry their content in node.
NoValue == [type |-> "none", parses |-> FALSE, node |-> JNull, segs |-> <<>>]
JsonText(node, segs) == [type |-> "str", parses |-> TRUE, node |-> node, segs |-> segs]
RawText(segs) == [type |-> "str", parses |-> FALSE, node |-> JNull, segs |-> segs]
ListValue(words) ==
    [type |-> "list", parses |-> FALSE,
     node |-> JList([n \in DOMAIN words |-> JStr(words[n])]), segs |-> <<>>]
NumValue(n) == [type |-> "num", parses |-> FALSE, node |-> JNum(n), segs |-> <<>>]

\* the JSON text of a flat frequency map; this text is never split
FreqMap(tags, counts) ==
    JsonText(JMap([n \in DOMAIN tags |-> <<tags[n], JNum(counts[n])>>]), <<>>)

\* the JSON text of a list of strings, segs being the pieces of that text
JsonList(words, segs) ==
    JsonText(JList([n \in DOMAIN words |-> JStr(words[n])]), segs)

\* what safe_open(full_path).metadata() gives: a mapping with its items in
\* iteration order ("mapping"), None ("none"), an exception of safe_open
\* ("unreadable"), or a non-empty value that is no mapping ("other")
Header(items) == [kind |-> "mapping", items |-> items]
NoHeader == [kind |-> "none", items |-> <<>>]
Unreadable == [kind |-> "unreadable", items |-> <<>>]
NotMapping == [kind |-> "other", items |-> <<>>]

\* the safetensors header of each file on disk
Metadata(full_path) ==
    CASE full_path = "/r1/a.st" ->
             Header(<< <<"ss_tag_frequency", FreqMap(<<"mb", "ma", " ">>, <<1, 5, 9>>)>>,
                       <<"ss_trained_words", JsonList(<<"ta">>, << <<"[\"ta\"]">> >>)>> >>)
      [] full_path = "/r1/x.st" ->
             Header(<< <<"ss_trained_words",
                         JsonList(<<" ", "mx", "mx", "my">>,
                                  << <<"[\"", "\"">>, <<"\"mx\"">>, <<"\"mx\"">>,
                                     <<"\"my\"]">> >>)>> >>)
      [] full_path = "/r2/e.st" ->
             Header(<< <<"ss_tag_frequency", FreqMap(<<"me">>, <<2>>)>> >>)
      [] full_path = "/r1/t.st" -> header
      [] full_path \in {"/r1/", "/r2/"} -> Unreadable
      [] OTHER -> NoHeader

\* LoraLoader().load_lora raises for a file it cannot read
LoaderRaises(lora_path) == lora_path = "x.st"

\* civitai_service.get_trigger_words_sync / get_trigger_words: trained words
\* the remote registry knows for a name, possibly none
CivitaiWords(name) ==
    CASE name \in {"a.st", "A.ST"} -> <<"ra">>
      [] name = "b.st" -> <<" rb ", "rb2">>
      [] name = "e.st" -> <<"re">>
      [] name = "x.st" -> <<"rx">>
      [] OTHER -> <<>>

----------------------------------------------------------------------------
(* src/backend/lora_utils.py *)

\* index of the first catalog entry equal to the name ignoring case, 0 if none
FirstLowerMatch(names, name) ==
    LET hits == {n \in DOMAIN names : Lower(names[n]) = Lower(name)}
    IN  IF hits = {} THEN 0 ELSE CHOOSE n \in hits : \A m \in hits : n <= m

\* get_lora_by_filename: the catalog entry for a filename, "" for None
get_lora_by_filename(filename) ==
    IF filename = "" \/ filename = "None" THEN ""
    ELSE IF \E n \in DOMAIN filename_list : filename_list[n] = filename
         THEN filename
    ELSE LET n == FirstLowerMatch(filename_list, filename)
         IN  IF n = 0 THEN "" ELSE filename_list[n]

\* _resolve_lora_full_path: "" for None
resolve_lora_full_path(lora_identifier) ==
    IF IsAbs(lora_identifier) /\ Exists(lora_identifier) THEN lora_identifier
    ELSE IF Len(lora_dirs) = 0 THEN ""
    ELSE IF Exists(PathJoin(lora_dirs[1], lora_identifier))
         THEN PathJoin(lora_dirs[1], lora_identifier)
    ELSE LET hits == {n \in DOMAIN filename_list :
                        /\ Lower(filename_list[n]) = Lower(lora_identifier)
                        /\ Exists(PathJoin(lora_dirs[1], filename_list[n]))}
         IN  IF hits = {} THEN ""
             ELSE PathJoin(lora_dirs[1],
                           filename_list[CHOOSE n \in hits : \A m \in hits : n <= m])

\* SortByCountDesc leaving flat in its insertion order
SortByCountDesc_Unsorted(tags, counts) == tags

\* sorted(flat.items(), key=count, reverse=True): stable, so equal counts
\* keep their first-seen order
RECURSIVE SortByCountDesc(_, _)
SortByCountDesc(tags, counts) ==
    IF Len(tags) = 0 THEN <<>>
    ELSE LET best == CHOOSE n \in DOMAIN tags :
                       /\ \A m \in DOMAIN tags : counts[m] <= counts[n]
                       /\ \A m \in DOMAIN tags : counts[m] = counts[n] => n <= m
             drop(s) == [k \in 1..(Len(s) - 1) |-> IF k < best THEN s[k] ELSE s[k + 1]]
         IN  <<tags[best]>> \o SortByCountDesc(drop(tags), drop(counts))

\* the stripped, non-empty elements of a list, in order
RECURSIVE StripNonEmpty(_)
StripNonEmpty(words) ==
    IF Len(words) = 0 THEN <<>>
    ELSE (IF Strip(words[1]) = "" THEN <<>> ELSE <<Strip(words[1])>>)
         \o StripNonEmpty(Tail(words))

\* words[:n]
Take(words, n) == SubSeq(words, 1, IF n < Len(words) THEN n ELSE Len(words))

\* metadata.get(key): NoValue for None
MetaGet(metadata, key) ==
    LET hits == {n \in DOMAIN metadata.items : metadata.items[n][1] = key}
    IN  IF hits = {} THEN NoValue
        ELSE metadata.items[CHOOSE n \in hits : TRUE][2]

\* add_counts(obj): the (key, count) pairs in the order add_counts reaches
\* them; a numeric value of a map is a count, a map or list is descended
\* into, anything else is passed over
RECURSIVE Leaves(_)
RECURSIVE ItemLeaves(_, _)
Leaves(obj) ==
    IF obj.kind \in {"map", "list"} THEN ItemLeaves(obj.kind, obj.items) ELSE <<>>

ItemLeaves(kind, items) ==
    IF Len(items) = 0 THEN <<>>
    ELSE LET k == items[1][1]
             v == items[1][2]
         IN  (IF kind = "map" /\ v.kind = "num" THEN << <<k, v.num>> >> ELSE Leaves(v))
             \o ItemLeaves(kind, Tail(items))

\* flat[k] = flat.get(k, 0) + float(v): flat keeps its keys in insertion order
AddCount(flat, k, v) ==
    IF \E n \in DOMAIN flat : flat[n][1] = k
    THEN [n \in DOMAIN flat |-> IF flat[n][1] = k THEN <<k, flat[n][2] + v>> ELSE flat[n]]
    ELSE Append(flat, <<k, v>>)

\* flat after add_counts has met the given pairs
RECURSIVE Flat(_, _)
Flat(leaves, flat) ==
    IF Len(leaves) = 0 THEN flat
    ELSE Flat(Tail(leaves), AddCount(flat, leaves[1][1], leaves[1][2]))

\* every candidate of source 1: the tags of the parsed ss_tag_frequency by
\* descending count, stripped, the empty ones left out; none when the value
\* is no str or json.loads raises
TagFrequencyCandidates(value) ==
    IF value.type # "str" \/ ~value.parses THEN <<>>
    ELSE LET flat == Flat(Leaves(value.node), <<>>)
         IN  StripNonEmpty(SortByCountDesc([n \in DOMAIN flat |-> flat[n][1]],
                                           [n \in DOMAIN flat |-> flat[n][2]]))

\* source 1: the loop appends a candidate and then tests len(words) >=
\* max_words, so one candidate is taken even when max_words is 0
TagFrequencyWords(value, max_words) ==
    Take(TagFrequencyCandidates(value), IF max_words < 1 THEN 1 ELSE max_words)

\* str(x) of a list element
ElemStr(node) ==
    CASE node.kind = "str" -> node.text
      [] node.kind = "num" -> ToString(node.num)
      [] OTHER -> "None"

\* [str(x).strip() for x in list if str(x).strip()]
ListWords(node) == StripNonEmpty([n \in DOMAIN node.items |-> ElemStr(node.items[n][2])])

\* the tokens of a text split at commas and then at whitespace
RECURSIVE Tokens(_)
Tokens(segs) == IF Len(segs) = 0 THEN <<>> ELSE segs[1] \o Tokens(Tail(segs))

\* every candidate of source 2: the words of ss_trained_words when it is the
\* JSON text of a list with a non-blank element, else the tokens of the text;
\* the elements when the value is a list
TrainedCandidates(value) ==
    IF value.type = "str"
    THEN LET parsed_list == IF value.parses /\ value.node.kind = "list"
                            THEN ListWords(value.node) ELSE <<>>
         IN  IF Len(parsed_list) > 0 THEN parsed_list ELSE Tokens(value.segs)
    ELSE IF value.type = "list" THEN ListWords(value.node)
    ELSE <<>>

\* source 2: the first max_words candidates
TrainedWords(value, max_words) == Take(TrainedCandidates(value), max_words)

\* "trainedwords" in lk or "trigger" in lk, for the keys a header may hold
IsTriggerKey(key) == key \in {"trigger_words", "Trigger", "modelspec.trainedWords"}

\* " ".join(tokens)
RECURSIVE SpaceJoin(_)
SpaceJoin(tokens) ==
    IF Len(tokens) = 0 THEN ""
    ELSE IF Len(tokens) = 1 THEN tokens[1]
    ELSE tokens[1] \o " " \o SpaceJoin(Tail(tokens))

\* the stripped non-empty pieces of a text split at commas
RECURSIVE Pieces(_)
Pieces(segs) ==
    IF Len(segs) = 0 THEN <<>>
    ELSE (IF Len(segs[1]) = 0 THEN <<>> ELSE <<SpaceJoin(segs[1])>>) \o Pieces(Tail(segs))

\* the words source 3 adds for one metadata item
OtherKeyWords(key, value) ==
    IF ~IsTriggerKey(key) THEN <<>>
    ELSE IF value.type = "str"
         THEN IF ~value.parses THEN Pieces(value.segs)
              ELSE IF value.node.kind = "list" THEN ListWords(value.node)
              ELSE IF value.node.kind = "str" THEN <<Strip(value.node.text)>>
              ELSE <<>>
    ELSE IF value.type = "list" THEN ListWords(value.node)
    ELSE <<>>

\* source 3: the loop over metadata.items(), left once len(words) >= max_words
RECURSIVE OtherWords(_, _, _)
OtherWords(items, words, max_words) ==
    IF Len(items) = 0 THEN words
    ELSE LET words2 == words \o OtherKeyWords(items[1][1], items[1][2])
         IN  IF Len(words2) >= max_words THEN words2
             ELSE OtherWords(Tail(items), words2, max_words)

\* the final loop: drop repeated words, stop at max_words
RECURSIVE Dedupe(_, _, _)
Dedupe(words, out, max_words) ==
    IF Len(words) = 0 THEN out
    ELSE LET w == words[1]
             out2 == IF w # "" /\ \A n \in DOMAIN out : out[n] # w
                     THEN Append(out, w) ELSE out
         IN  IF Len(out2) >= max_words THEN out2
             ELSE Dedupe(Tail(words), out2, max_words)

\* lines 117-201: the words extracted from a metadata mapping
ExtractWords(metadata, max_words) ==
    LET w1 == TagFrequencyWords(MetaGet(metadata, "ss_tag_frequency"), max_words)
        w2 == IF Len(w1) > 0 THEN w1
              ELSE TrainedWords(MetaGet(metadata, "ss_trained_words"), max_words)
        w3 == IF Len(w2) > 0 THEN w2 ELSE OtherWords(metadata.items, <<>>, max_words)
    IN  Dedupe(w3, <<>>, max_words)

\* metadata = f.metadata() or {}, and {} when safe_open raises
ReadMetadata(full_path) ==
    IF Metadata(full_path).kind \in {"none", "unreadable"} THEN Header(<<>>)
    ELSE Metadata(full_path)

\* the body of the outer try: the words it returns, or raised when an
\* exception leaves it (metadata.get on a value that is no mapping)
ExtractBody(lora_identifier, max_words) ==
    LET full_path == resolve_lora_full_path(lora_identifier)
    IN  IF full_path = "" \/ ~Exists(full_path) THEN [raised |-> FALSE, words |-> <<>>]
        ELSE IF ReadMetadata(full_path).kind # "mapping"
             THEN [raised |-> TRUE, words |-> <<>>]
        ELSE [raised |-> FALSE, words |-> ExtractWords(ReadMetadata(full_path), max_words)]

\* ExtractCaught letting the exception leave extract_trigger_words
ExtractCaught_Propagates(r) == r

\* the outer except: the error is printed and [] returned
ExtractCaught(r) == IF r.raised THEN [raised |-> FALSE, words |-> <<>>] ELSE r

\* extract_trigger_words as a call: whether it raised and the list it returned
ExtractOutcome(lora_identifier, max_words) ==
    ExtractCaught(ExtractBody(lora_identifier, max_words))

\* extract_trigger_words
extract_trigger_words(lora_identifier, max_words) ==
    ExtractOutcome(lora_identifier, max_words).words

----------------------------------------------------------------------------
(* src/backend/super_lora_node.py: SuperLoraLoader.load_loras *)

\* a model or clip handle: None, or the base object with the LoRA
\* applications made to it so far, each <<path, strength>>
NoHandle == [none |-> TRUE, applied |-> <<>>]
BaseHandle == [none |-> FALSE, applied |-> <<>>]

EmptyDict == [k \in {} |-> NoneV]

\* d[k] = v
DictSet(d, k, v) == [x \in DOMAIN d \cup {k} |-> IF x = k THEN v ELSE d[x]]

\* one call of a collaborator, or one trigger_words.append, made while entry i
\* of lora_configs is processed
Event(op, i, id, sm, sc, ret, ok, min, cin) ==
    [op |-> op, i |-> i, id |-> id, sm |-> sm, sc |-> sc, ret |-> ret,
     ok |-> ok, min |-> min, cin |-> cin]

\* the first loop over kwargs: the values taken as widget configurations
RECURSIVE StructuredConfigs(_)
StructuredConfigs(kw) ==
    IF Len(kw) = 0 THEN <<>>
    ELSE LET it == kw[1]
         IN  (IF it.dict /\ ("lora" \in DOMAIN it.cfg \/ it.key.prefix = "lora_")
              THEN <<it.cfg>> ELSE <<>>)
             \o StructuredConfigs(Tail(kw))

\* lora_slots[slot_num] = {} unless the slot is there already; lora_slots is
\* kept in insertion order
EnsureSlot(slots, n) ==
    IF \E k \in DOMAIN slots : slots[k].slot = n THEN slots
    ELSE Append(slots, [slot |-> n, data |-> EmptyDict])

\* lora_slots[slot_num][field] = v
SlotSet(slots, n, field, v) ==
    LET s == EnsureSlot(slots, n)
    IN  [k \in DOMAIN s |->
            IF s[k].slot = n THEN [s[k] EXCEPT !.data = DictSet(s[k].data, field, v)]
            ELSE s[k]]

\* one iteration of the old-format loop; every branch swallows its exception
LegacyKey(slots, it) ==
    LET p == it.key.prefix
        n == IntOf(it.key.rest) - 1
    IN  IF p \notin {"LoRA ", "Enable ", "Strength ", "Trigger Words "} THEN slots
        ELSE IF IntRaises(it.key.rest) THEN slots
        ELSE IF p = "LoRA " THEN SlotSet(slots, n, "lora", it.val)
        ELSE IF p = "Enable " THEN SlotSet(slots, n, "enabled", it.val)
        ELSE IF p = "Strength "
             THEN IF it.dict \/ FloatRaises(it.val) THEN EnsureSlot(slots, n)
                  ELSE SlotSet(slots, n, "strength", Num(FloatOf(it.val)))
        ELSE SlotSet(slots, n, "trigger_words", Str(StrOf(it.val)))

RECURSIVE LegacySlots(_, _)
LegacySlots(kw, slots) ==
    IF Len(kw) = 0 THEN slots
    ELSE LegacySlots(Tail(kw), LegacyKey(slots, kw[1]))

\* the conversion of the old format to the new one
RECURSIVE LegacyConfigs(_)
LegacyConfigs(slots) ==
    IF Len(slots) = 0 THEN <<>>
    ELSE LET d == slots[1].data
             lora == Get(d, "lora", NoneV)
         IN  (IF Truthy(lora) /\ lora # Str("None")
              THEN <<[k \in {"lora", "enabled", "strength", "strengthClip", "triggerWords"} |->
                        CASE k = "lora" -> lora
                          [] k = "enabled" -> Get(d, "enabled", TrueV)
                          [] k = "strength" -> Get(d, "strength", Num("1.0"))
                          [] k = "strengthClip" -> Get(d, "strength", Num("1.0"))
                          [] OTHER -> Get(d, "trigger_words", Str(""))]>>
              ELSE <<>>)
             \o LegacyConfigs(Tail(slots))

\* LoraConfigs parsing the old format also when widget values were found
LoraConfigs_Merged(kw) ==
    StructuredConfigs(kw) \o LegacyConfigs(LegacySlots(kw, <<>>))

\* lora_configs as load_loras builds it from kwargs
LoraConfigs(kw) ==
    IF Len(StructuredConfigs(kw)) > 0 THEN StructuredConfigs(kw)
    ELSE LegacyConfigs(LegacySlots(kw, <<>>))

\* lora_name of a configuration
LoraName(config) ==
    Or(Or(Or(Get(config, "lora", Str("None")), Get(config, "file", NoneV)),
          Get(config, "name", NoneV)),
       Str("None"))

\* enabled of a configuration
Enabled(config) ==
    IF Get(config, "enabled", NoneV) # NoneV THEN Truthy(Get(config, "enabled", TrueV))
    ELSE Truthy(Get(config, "on", TrueV))

\* strength_model_val; None when no alias has a value
StrengthModelVal(config) ==
    IF Get(config, "strength_model", NoneV) # NoneV THEN Get(config, "strength_model", NoneV)
    ELSE Get(config, "strength", NoneV)

\* strength_clip_val; None when no alias has a value
StrengthClipVal(config) ==
    IF Get(config, "strength_clip", NoneV) # NoneV THEN Get(config, "strength_clip", NoneV)
    ELSE IF Get(config, "strengthClip", NoneV) # NoneV THEN Get(config, "strengthClip", NoneV)
    ELSE Get(config, "strength", NoneV)

\* one of the two float() calls raises
StrengthRaises(config) ==
    \/ StrengthModelVal(config) # NoneV /\ FloatRaises(StrengthModelVal(config))
    \/ StrengthClipVal(config) # NoneV /\ FloatRaises(StrengthClipVal(config))

StrengthModel(config) ==
    IF StrengthModelVal(config) # NoneV THEN FloatOf(StrengthModelVal(config)) ELSE "1.0"

StrengthClip(config) ==
    IF StrengthClipVal(config) # NoneV THEN FloatOf(StrengthClipVal(config))
    ELSE StrengthModel(config)

\* trigger_word of a configuration, before the fallbacks
TriggerWord(config) ==
    LET tw == IF Get(config, "trigger_word", NoneV) = NoneV
              THEN Get(config, "triggerWords", Str(""))
              ELSE Get(config, "trigger_word", NoneV)
    IN  Strip(StrOf(Or(tw, Str(""))))

\* Skipped without the test for a zero strength
Skipped_NoZeroTest(config) ==
    \/ ~Enabled(config)
    \/ LoraName(config) = Str("None")
    \/ ~Truthy(LoraName(config))

\* the two skips: not enabled or no LoRA selected, or strength zero
Skipped(config) ==
    \/ ~Enabled(config)
    \/ LoraName(config) = Str("None")
    \/ ~Truthy(LoraName(config))
    \/ StrengthModel(config) = "0.0"

\* TriggerLookups asking the remote service whatever the metadata gave
TriggerLookups_AlwaysRemote(tw, meta_words) ==
    IF tw # "" THEN <<>> ELSE <<"meta", "remote">>

\* the lookups made for an entry whose explicit trigger word is tw: none when
\* it is non-blank, else the metadata, and the remote service only when the
\* metadata gave nothing
TriggerLookups(tw, meta_words) ==
    IF tw # "" THEN <<>>
    ELSE IF Len(meta_words) > 0 THEN <<"meta">>
    ELSE <<"meta", "remote">>

\* FinalTrigger preferring the remote words to the metadata
FinalTrigger_RemoteFirst(tw, meta_words, words) ==
    IF tw # "" THEN tw
    ELSE IF Len(words) > 0 THEN Strip(words[1])
    ELSE IF Len(meta_words) > 0 THEN Strip(meta_words[1])
    ELSE ""

\* trigger_word after the fallbacks
FinalTrigger(tw, meta_words, words) ==
    IF tw # "" THEN tw
    ELSE IF Len(meta_words) > 0 THEN Strip(meta_words[1])
    ELSE IF Len(words) > 0 THEN Strip(words[1])
    ELSE ""

\* LoadFailed letting the loader's exception leave load_loras
LoadFailed_Propagates(st, failed) ==
    [st EXCEPT !.log = Append(@, failed), !.raised = TRUE]

\* the except branch of entry i: the error is printed and the loop continues
LoadFailed(st, failed) == [st EXCEPT !.log = Append(@, failed)]

\* LoraLoader().load_lora(model, clip, lora_path, strength_model,
\* strength_clip): the handles it returns, each the given handle with the
\* application added to it
load_lora(m, c, lora_path, sm, sc) ==
    <<[m EXCEPT !.applied = Append(@, <<lora_path, sm>>)],
      [c EXCEPT !.applied = Append(@, <<lora_path, sc>>)]>>

\* Assign leaving current_model and current_clip as the caller gave them
Assign_KeepCaller(st, handles) == st

\* current_model, current_clip = the handles load_lora returned
Assign(st, handles) == [st EXCEPT !.model = handles[1], !.clip = handles[2]]

\* the body of the try block for entry i: st is [raised, model, clip, log]
LoadOne(st, config, i) ==
    LET lora_name == StrOf(LoraName(config))
        lora_path == get_lora_by_filename(lora_name)
        sm == StrengthModel(config)
        sc == StrengthClip(config)
        tw == TriggerWord(config)
    IN  IF st.model.none \/ lora_path = "" THEN st
        ELSE IF LoaderRaises(lora_path)
             THEN LoadFailed(st, Event("load", i, lora_path, sm, sc, <<>>, FALSE,
                                       st.model, st.clip))
        ELSE LET loaded == Event("load", i, lora_path, sm, sc, <<>>, TRUE, st.model, st.clip)
                 meta_words == extract_trigger_words(lora_path, 3)
                 words == CivitaiWords(lora_name)
                 lookups == TriggerLookups(tw, meta_words)
                 calls == [n \in DOMAIN lookups |->
                             IF lookups[n] = "meta"
                             THEN Event("meta", i, lora_path, "", "", meta_words, TRUE,
                                        NoHandle, NoHandle)
                             ELSE Event("remote", i, lora_name, "", "", words, TRUE,
                                        NoHandle, NoHandle)]
                 trigger_word == FinalTrigger(tw, meta_words, words)
                 said == IF trigger_word # ""
                         THEN <<Event("word", i, trigger_word, "", "", <<>>, TRUE,
                                      NoHandle, NoHandle)>>
                         ELSE <<>>
             IN  [Assign(st, load_lora(st.model, st.clip, lora_path, sm, sc)) EXCEPT
                    !.log = @ \o <<loaded>> \o calls \o said]

\* the loop over lora_configs from entry i on; a float() that raises ends the
\* call with the exception
RECURSIVE ProcessConfigs(_, _, _)
ProcessConfigs(st, configs, i) ==
    IF i > Len(configs) THEN st
    ELSE IF StrengthRaises(configs[i]) THEN [st EXCEPT !.raised = TRUE]
    ELSE IF Skipped(configs[i]) THEN ProcessConfigs(st, configs, i + 1)
    ELSE ProcessConfigs(LoadOne(st, configs[i], i), configs, i + 1)

\* the trigger_words list: the appended words in order
RECURSIVE WordsOf(_)
WordsOf(log) ==
    IF Len(log) = 0 THEN <<>>
    ELSE (IF log[1].op = "word" THEN <<log[1].id>> ELSE <<>>) \o WordsOf(Tail(log))

Outcome(kind, raised, m, c, text, words, log) ==
    [kind |-> kind, raised |-> raised, model |-> m, clip |-> c, text |-> text,
     words |-> words, log |-> log]

\* load_loras processing the configurations whether or not ComfyUI is there
load_loras_NoGuard(avail, m, c, kw) ==
    LET st == ProcessConfigs([raised |-> FALSE, model |-> m, clip |-> c, log |-> <<>>],
                             LoraConfigs(kw), 1)
    IN  IF st.raised THEN Outcome("load_loras", TRUE, m, c, "", <<>>, st.log)
        ELSE Outcome("load_loras", FALSE, st.model, st.clip,
                     Join(WordsOf(st.log)), WordsOf(st.log), st.log)

\* load_loras(model, clip, **kwargs): what it returns, whether it raised, and
\* the calls it made
load_loras(avail, m, c, kw) ==
    IF ~avail THEN Outcome("load_loras", FALSE, m, c, "", <<>>, <<>>)
    ELSE LET st == ProcessConfigs([raised |-> FALSE, model |-> m, clip |-> c, log |-> <<>>],
                                  LoraConfigs(kw), 1)
         IN  IF st.raised THEN Outcome("load_loras", TRUE, m, c, "", <<>>, st.log)
             ELSE Outcome("load_loras", FALSE, st.model, st.clip,
                          Join(WordsOf(st.log)), WordsOf(st.log), st.log)

----------------------------------------------------------------------------
(* src/backend/web_api.py: the civitai_info endpoint *)

\* get_civitai_info for a request body {lora_filename}: the remote lookup
\* first, extract_trigger_words when it returns nothing
get_civitai_info(lora_filename) ==
    IF lora_filename = ""
    THEN Outcome("error", FALSE, NoHandle, NoHandle, "LoRA filename is required", <<>>, <<>>)
    ELSE LET words == CivitaiWords(lora_filename)
             remote == Event("remote", 1, lora_filename, "", "", words, TRUE, NoHandle, NoHandle)
             meta_words == extract_trigger_words(lora_filename, 3)
             meta == Event("meta", 1, lora_filename, "", "", meta_words, TRUE, NoHandle, NoHandle)
         IN  IF Len(words) > 0
             THEN Outcome("civitai_info", FALSE, NoHandle, NoHandle, "", words, <<remote>>)
             ELSE Outcome("civitai_info", FALSE, NoHandle, NoHandle, "",
                          IF Len(meta_words) > 0 THEN meta_words ELSE words,
                          <<remote, meta>>)

----------------------------------------------------------------------------
(* src/backend/nd_super_prompt_node.py: NdSuperPromptBuilder               *)
(*                                                                         *)
(* A text is the sequence of its characters, so that the regular           *)
(* expressions of _substitute_variables can be followed character by       *)
(* character; a dict of variables is a function from names (texts) to      *)
(* values (texts).                                                         *)

\* the string a text denotes
RECURSIVE Cat(_)
Cat(chars) == IF Len(chars) = 0 THEN "" ELSE chars[1] \o Cat(Tail(chars))

Whitespace == {" ", "\n"}

\* text.strip()
RECURSIVE LStrip(_)
LStrip(text) ==
    IF Len(text) > 0 /\ text[1] \in Whitespace THEN LStrip(Tail(text)) ELSE text

RECURSIVE RStrip(_)
RStrip(text) ==
    IF Len(text) > 0 /\ text[Len(text)] \in Whitespace
    THEN RStrip(SubSeq(text, 1, Len(text) - 1)) ELSE text

StripText(text) == RStrip(LStrip(text))

\* \w: a character that is no punctuation and no whitespace
IsWordChar(c) == c \notin {"{", "}", "$", ".", ",", "(", ")", ":", " ", "\n"}

\* the last position of the longest run of \w and '.' characters that
\* starts at position p; p - 1 when there is none
RECURSIVE RunEnd(_, _)
RunEnd(text, p) ==
    IF p <= Len(text) /\ (IsWordChar(text[p]) \/ text[p] = ".")
    THEN RunEnd(text, p + 1) ELSE p - 1

\* \w+(?:\.\w+)*
IsName(name) ==
    /\ Len(name) > 0
    /\ name[1] # "."
    /\ name[Len(name)] # "."
    /\ \A i \in 1..(Len(name) - 1) : ~(name[i] = "." /\ name[i + 1] = ".")

\* the text has s at position p
StartsWith(text, p, s) ==
    /\ p + Len(s) - 1 <= Len(text)
    /\ SubSeq(text, p, p + Len(s) - 1) = s

\* the three patterns: what precedes and what follows the name
Opening(k) == <<<<"{", "{">>, <<"$", "{">>, <<"{">>>>[k]
Closing(k) == <<<<"}", "}">>, <<"}">>, <<"}">>>>[k]

NoMatch == [found |-> FALSE, start |-> 0, end |-> 0, name |-> <<>>]

\* the match of pattern k that starts at position p, if there is one; the
\* name must reach up to the closing brace, so it is the longest run
MatchAt(text, p, k) ==
    LET a == p + Len(Opening(k))
        b == RunEnd(text, a)
    IN  IF /\ StartsWith(text, p, Opening(k))
           /\ IsName(SubSeq(text, a, b))
           /\ StartsWith(text, b + 1, Closing(k))
        THEN [found |-> TRUE, start |-> p, end |-> b + Len(Closing(k)),
              name |-> SubSeq(text, a, b)]
        ELSE NoMatch

\* re.finditer(pattern, result): the non-overlapping matches from position p
\* on, left to right
RECURSIVE FindAll(_, _, _)
FindAll(text, p, k) ==
    IF p > Len(text) THEN <<>>
    ELSE IF MatchAt(text, p, k).found
         THEN <<MatchAt(text, p, k)>> \o FindAll(text, MatchAt(text, p, k).end + 1, k)
    ELSE FindAll(text, p + 1, k)

\* a match whose name is no variable removed from the text
Replaced_DropUnknown(text, m, variables) ==
    SubSeq(text, 1, m.start - 1)
    \o (IF m.name \in DOMAIN variables THEN variables[m.name] ELSE <<>>)
    \o SubSeq(text, m.end + 1, Len(text))

\* the body of the loop over the matches: a match whose name is a variable
\* is replaced by the variable's value, any other match is left as it is
Replaced(text, m, variables) ==
    IF m.name \in DOMAIN variables
    THEN SubSeq(text, 1, m.start - 1) \o variables[m.name]
         \o SubSeq(text, m.end + 1, Len(text))
    ELSE text

\* the loop over reversed(list(matches)): the last match first
RECURSIVE ReplaceMatches(_, _, _)
ReplaceMatches(text, matches, variables) ==
    IF Len(matches) = 0 THEN text
    ELSE ReplaceMatches(Replaced(text, matches[Len(matches)], variables),
                        SubSeq(matches, 1, Len(matches) - 1), variables)

\* one iteration of the loop over patterns: the matches are those of the
\* result of the preceding iterations
SubstitutePass(text, k, variables) ==
    ReplaceMatches(text, FindAll(text, 1, k), variables)

\* _substitute_variables(text, variables)
substitute_variables(text, variables) ==
    IF DOMAIN variables = {} THEN text
    ELSE SubstitutePass(SubstitutePass(SubstitutePass(text, 1, variables), 2, variables),
                        3, variables)

\* text.split(sep): the pieces between the separators
RECURSIVE SplitOn(_, _, _)
SplitOn(text, sep, piece) ==
    IF Len(text) = 0 THEN <<piece>>
    ELSE IF text[1] = sep THEN <<piece>> \o SplitOn(Tail(text), sep, <<>>)
    ELSE SplitOn(Tail(text), sep, Append(piece, text[1]))

\* [t.strip() for t in pieces if t.strip()]
RECURSIVE StrippedPieces(_)
StrippedPieces(pieces) ==
    IF Len(pieces) = 0 THEN <<>>
    ELSE (IF StripText(pieces[1]) = <<>> THEN <<>> ELSE <<StripText(pieces[1])>>)
         \o StrippedPieces(Tail(pieces))

\* trigger.split()[0] of a stripped non-empty trigger
RECURSIVE FirstWord(_)
FirstWord(text) ==
    IF Len(text) = 0 \/ text[1] \in Whitespace THEN <<>>
    ELSE <<text[1]>> \o FirstWord(Tail(text))

\* first_word.isalnum()
IsAlnum(word) == Len(word) > 0 /\ \A i \in DOMAIN word : IsWordChar(word[i]) /\ word[i] # "_"

\* c.lower()
LowerChar(c) ==
    CASE c = "S" -> "s"
      [] c = "A" -> "a"
      [] OTHER -> c

LowerText(text) == [i \in DOMAIN text |-> LowerChar(text[i])]

TriggerPrefix == <<"t", "r", "i", "g", "g", "e", "r", ".">>

\* f"{i+1}" for the i-th trigger, counted from one
Decimal(i) == <<<<"1">>, <<"2">>, <<"3">>, <<"4">>, <<"5">>>>[i]

\* ", ".join(parts)
RECURSIVE JoinTexts(_)
JoinTexts(parts) ==
    IF Len(parts) = 0 THEN <<>>
    ELSE IF Len(parts) = 1 THEN parts[1]
    ELSE parts[1] \o <<",", " ">> \o JoinTexts(Tail(parts))

\* variables.update(custom_vars)
Update(variables, custom_vars) ==
    [n \in DOMAIN variables \cup DOMAIN custom_vars |->
        IF n \in DOMAIN custom_vars THEN custom_vars[n] ELSE variables[n]]

\* the loop over enumerate(triggers) from index i on
RECURSIVE TriggerVariables(_, _, _)
TriggerVariables(triggers, i, variables) ==
    IF i > Len(triggers) THEN variables
    ELSE LET indexed == DictSet(variables, TriggerPrefix \o Decimal(i), triggers[i])
             first_word == FirstWord(triggers[i])
             named == IF IsAlnum(first_word)
                      THEN DictSet(indexed, TriggerPrefix \o LowerText(first_word), triggers[i])
                      ELSE indexed
         IN  TriggerVariables(triggers, i + 1, named)

\* the loop over the segments: the variables of every segment are added,
\* whether the segment is enabled or not
RECURSIVE SegmentVariables(_, _)
SegmentVariables(segments, variables) ==
    IF Len(segments) = 0 THEN variables
    ELSE SegmentVariables(Tail(segments), Update(variables, segments[1].variables))

\* _build_variable_context(trigger_words, segments)
build_variable_context(trigger_words, segments) ==
    LET triggers == StrippedPieces(SplitOn(trigger_words, ",", <<>>))
        from_triggers ==
            IF Len(trigger_words) = 0 THEN EmptyDict
            ELSE DictSet(TriggerVariables(triggers, 1, EmptyDict),
                         TriggerPrefix \o <<"a", "l", "l">>, JoinTexts(triggers))
    IN  SegmentVariables(segments, from_triggers)

\* _parse_bundle(bundle): the segments of a JSON list or of the 'segments'
\* key of a JSON object, [] for anything else
parse_bundle(bundle) ==
    IF bundle.kind \in {"list", "dict"} THEN bundle.segments ELSE <<>>

\* f"{weight:.2f}"
FormatWeight(weight) ==
    CASE weight = Num("0.8") -> <<"0", ".", "8", "0">>
      [] weight = Num("1.5") -> <<"1", ".", "5", "0">>
      [] OTHER -> <<"1", ".", "0", "0">>

\* weight != 1.0: the int 1 of a JSON bundle equals the float 1.0
DiffersFromOne(weight) == weight \notin {Num("1.0"), Num("1")}

\* segment.get('enabled', True) is true and the stripped text is not empty
Contributes(segment) ==
    /\ (segment.enabled = Absent \/ Truthy(segment.enabled))
    /\ StripText(segment.text) # <<>>

\* processed_text without the test of the weight
ProcessedText_NeverWrapped(segment, variables) ==
    substitute_variables(StripText(segment.text), variables)

\* processed_text of a contributing segment
ProcessedText(segment, variables) ==
    LET processed_text == substitute_variables(StripText(segment.text), variables)
        weight == IF segment.weight = Absent THEN Num("1.0") ELSE segment.weight
    IN  IF DiffersFromOne(weight)
        THEN <<"(">> \o processed_text \o <<":">> \o FormatWeight(weight) \o <<")">>
        ELSE processed_text

\* positive_parts (negative = FALSE) or negative_parts (negative = TRUE)
RECURSIVE PromptParts(_, _, _)
PromptParts(segments, variables, negative) ==
    IF Len(segments) = 0 THEN <<>>
    ELSE (IF Contributes(segments[1]) /\ ((segments[1].type = "negative") = negative)
          THEN <<ProcessedText(segments[1], variables)>> ELSE <<>>)
         \o PromptParts(Tail(segments), variables, negative)

\* the prompt of a side never replaced by its override
Overridden_Ignored(override, parts) == JoinTexts(parts)

\* override.strip() if override.strip() else ", ".join(parts)
Overridden(override, parts) ==
    IF StripText(override) # <<>> THEN StripText(override) ELSE JoinTexts(parts)

\* build_prompt(prompt_bundle, trigger_words, positive_override,
\* negative_override): words holds (positive, negative, combined)
build_prompt(prompt_bundle, trigger_words, positive_override, negative_override) ==
    LET segments == parse_bundle(prompt_bundle)
        variables == build_variable_context(trigger_words, segments)
        positive_prompt ==
            Overridden(positive_override, PromptParts(segments, variables, FALSE))
        negative_prompt ==
            Overridden(negative_override, PromptParts(segments, variables, TRUE))
        combined_prompt ==
            IF negative_prompt # <<>>
            THEN positive_prompt
                 \o <<"\n", "N", "e", "g", "a", "t", "i", "v", "e", ":", " ">>
                 \o negative_prompt
            ELSE positive_prompt
    IN  Outcome("build_prompt", FALSE, NoHandle, NoHandle, Cat(combined_prompt),
                <<Cat(positive_prompt), Cat(negative_prompt), Cat(combined_prompt)>>, <<>>)

----------------------------------------------------------------------------
(* src/backend/prompt_manager.py: PromptManager                            *)
(*                                                                         *)
(* history and favorites are the lists _history and _favorites, templates  *)
(* is the dict _templates, and files holds what prompt_history.json,       *)
(* prompt_favorites.json and prompt_templates.json hold on disk. Prompt    *)
(* texts are sequences of characters; names and ids are strings. The       *)
(* timestamp, segments and metadata fields of a history or favorite        *)
(* record, which no method reads, are left out of the records.             *)

\* a file json.load reads data from
File(data) == [readable |-> TRUE, data |-> data]

\* a file that does not exist, or one json.load raises on
NoFile == [readable |-> FALSE, data |-> <<>>]

\* _load_json(filepath, default)
load_json(file, default) == IF file.readable THEN file.data ELSE default

\* what a call of _save_json can do to the file: write it, fail in open()
\* and leave it as it was, or fail in json.dump after open() truncated it
WriteOutcomes == {"written", "refused", "torn"}

\* _save_json(filepath, data): the file afterwards and the value returned
save_json(file, data, outcome) ==
    [file |-> CASE outcome = "written" -> File(data)
                [] outcome = "refused" -> file
                [] OTHER -> NoFile,
     ret |-> outcome = "written"]

\* f"hist_{datetime.now()...}" and f"fav_{datetime.now()...}"
EntryId(prefix, clock) == prefix \o "_" \o ToString(clock)

HistoryEntry(entry_id, positive, negative) ==
    [id |-> entry_id, positive |-> positive, negative |-> negative]

FavoriteEntry(entry_id, name, positive, negative) ==
    [id |-> entry_id, name |-> name, positive |-> positive,
     negative |-> negative]

TemplateEntry(name, segments) == [name |-> name, segments |-> segments]

max_history == 100

\* the first max_history records, when there are more: the records most
\* recently added
Truncated_KeepOldest(entries) ==
    IF Len(entries) > max_history
    THEN SubSeq(entries, Len(entries) - max_history + 1, Len(entries))
    ELSE entries

Truncated(entries) ==
    IF Len(entries) > max_history
    THEN SubSeq(entries, 1, max_history)
    ELSE entries

\* the list after add_to_history(positive, negative) and the id returned;
\* the result of _save_json is not looked at
add_to_history(entries, positive, negative, clock) ==
    LET entry == HistoryEntry(EntryId("hist", clock), positive, negative)
    IN  [entries |-> Truncated(<<entry>> \o entries), saved |-> TRUE,
         ret |-> entry.id]

\* [e for e in entries if e.get('id') != entry_id]
WithoutId(entries, entry_id) ==
    LET Kept(e) == e.id # entry_id
    IN  SelectSeq(entries, Kept)

\* delete_history_entry(entry_id) and delete_favorite(entry_id): the file is
\* written when a record was removed
delete_entry(entries, entry_id) ==
    LET kept == WithoutId(entries, entry_id)
    IN  [entries |-> kept, saved |-> Len(kept) < Len(entries),
         ret |-> Len(kept) < Len(entries)]

\* query_lower in text
Contains(text, query) ==
    \E p \in 1..(Len(text) - Len(query) + 1) :
        SubSeq(text, p, p + Len(query) - 1) = query

\* the test of the loop of search_history
Matches(entry, query) ==
    \/ Contains(LowerText(entry.positive), LowerText(query))
    \/ Contains(LowerText(entry.negative), LowerText(query))

\* the loop of search_history from record i on: a match is appended before
\* the length of the results is compared with the limit
RECURSIVE SearchFrom(_, _, _, _, _)
SearchFrom(entries, query, limit, i, results) ==
    IF i > Len(entries) THEN results
    ELSE IF Matches(entries[i], query)
         THEN LET found == Append(results, entries[i])
              IN  IF Len(found) >= limit THEN found
                  ELSE SearchFrom(entries, query, limit, i + 1, found)
         ELSE SearchFrom(entries, query, limit, i + 1, results)

search_history(entries, query, limit) ==
    SearchFrom(entries, query, limit, 1, <<>>)

\* add_to_favorites(name, positive, negative)
add_to_favorites(entries, name, positive, negative, clock) ==
    LET entry == FavoriteEntry(EntryId("fav", clock), name, positive,
                               negative)
    IN  [entries |-> Append(entries, entry), saved |-> TRUE, ret |-> entry.id]

\* rename_favorite(entry_id, new_name): the first record with the id gets
\* the name and the file is written
rename_favorite(entries, entry_id, new_name) ==
    LET hits == {i \in DOMAIN entries : entries[i].id = entry_id}
        first == CHOOSE i \in hits : \A j \in hits : i <= j
    IN  IF hits = {}
        THEN [entries |-> entries, saved |-> FALSE]
        ELSE [entries |-> [entries EXCEPT ![first].name = new_name],
              saved |-> TRUE]

\* del d[k]
Removed(d, k) == [x \in DOMAIN d \ {k} |-> d[x]]

\* save_template(name, segments)
save_template(d, name, segments) ==
    [entries |-> DictSet(d, name, TemplateEntry(name, segments)),
     saved |-> TRUE]

\* delete_template(name)
delete_template(d, name) ==
    IF name \in DOMAIN d
    THEN [entries |-> Removed(d, name), saved |-> TRUE]
    ELSE [entries |-> d, saved |-> FALSE]

\* the dict after pop(old_name) and the two assignments
Renamed(d, old_name, new_name) ==
    DictSet(Removed(d, old_name), new_name,
            [d[old_name] EXCEPT !.name = new_name])

RenameAllowed_Always(d, old_name, new_name) == old_name \in DOMAIN d

RenameAllowed(d, old_name, new_name) ==
    old_name \in DOMAIN d /\ new_name \notin DOMAIN d

\* clear_history()
clear_history == [entries |-> <<>>, saved |-> TRUE]

\* rename_template(old_name, new_name)
rename_template(d, old_name, new_name) ==
    IF RenameAllowed(d, old_name, new_name)
    THEN [entries |-> Renamed(d, old_name, new_name), saved |-> TRUE]
    ELSE [entries |-> d, saved |-> FALSE]

\* the value a method that ends in `return self._save_json(...)` returns:
\* False when it did not reach the call
Returned(call, outcome) == call.saved /\ outcome = "written"

\* the file after the call
Persisted(file, call, outcome) ==
    IF call.saved THEN save_json(file, call.entries, outcome).file ELSE file

----------------------------------------------------------------------------
(* template_manager.py, which src/ does not hold: the store behind         *)
(* get_template_manager(), a key-value store of named LoRA sets            *)

\* TemplateManager.save_template(name, lora_configs): the store after a put
\* that succeeded
lora_save_template(d, name, lora_configs) == DictSet(d, name, lora_configs)

\* TemplateManager.delete_template(name): True when the name was there
lora_delete_template(d, name) ==
    [entries |-> IF name \in DOMAIN d THEN Removed(d, name) ELSE d,
     ret |-> name \in DOMAIN d]

----------------------------------------------------------------------------
(* src/backend/web_api.py: the template and prompt endpoints               *)

\* web.json_response(body, status): error, success and id are the members
\* of the body, Absent when the body has no such member; results is the
\* list under "results"
Response(endpoint, status, error, success, id, results) ==
    [kind |-> endpoint, status |-> status, error |-> error,
     success |-> success, id |-> id, results |-> results]

Rejected(endpoint, status, message) ==
    Response(endpoint, status, Str(message), Absent, Absent, <<>>)

Answered(endpoint, success) ==
    Response(endpoint, 200, Absent, IF success THEN TrueV ELSE FalseV, Absent,
             <<>>)

\* data.get(key): None when the body has no such member
Field(data, key) == IF data[key][1] = "absent" THEN NoneV ELSE data[key]

\* `not value`, the test the endpoints make on a required field
Missing_Never(value) == FALSE

Missing(value) == ~Truthy(value)

\* data.get(key, default) of a prompt text
TextField(data, key) == IF data[key][1] = "absent" THEN <<>> ELSE data[key][2]

\* data.get("segments", []) and data.get("loras", [])
ListField(data, key) ==
    IF data[key][1] = "absent" THEN <<"list", "[]">> ELSE data[key]

\* int(text) of a query parameter; raises is TRUE when int() raises
ParseInt(text) ==
    CASE text = "0" -> [raises |-> FALSE, value |-> 0]
      [] text = "1" -> [raises |-> FALSE, value |-> 1]
      [] text = "2" -> [raises |-> FALSE, value |-> 2]
      [] text = "20" -> [raises |-> FALSE, value |-> 20]
      [] text = "-1" -> [raises |-> FALSE, value |-> 0 - 1]
      [] OTHER -> [raises |-> TRUE, value |-> 0]

\* request.rel_url.query.get(key, default)
QueryParam(query, key, default) ==
    IF query[key][1] = "absent" THEN default ELSE query[key][2]

NoFiles == [history |-> NoFile, favorites |-> NoFile, templates |-> NoFile]

\* the stores of a process that serves no store request
NoStores ==
    /\ history = <<>>
    /\ favorites = <<>>
    /\ templates = EmptyDict
    /\ lora_templates = EmptyDict
    /\ files = NoFiles
    /\ now = 0

----------------------------------------------------------------------------
(* The inputs of the calls *)

Key(prefix, rest) == [prefix |-> prefix, rest |-> rest]

\* a keyword argument whose value is a dict
Widget(prefix, rest, cfg) ==
    [key |-> Key(prefix, rest), dict |-> TRUE, val |-> NoneV, cfg |-> cfg]

\* a keyword argument whose value is a scalar
Scalar(prefix, rest, val) ==
    [key |-> Key(prefix, rest), dict |-> FALSE, val |-> val, cfg |-> EmptyDict]

AllAbsent ==
    [lora |-> Absent, file |-> Absent, name |-> Absent, enabled |-> Absent,
     on |-> Absent, strength_model |-> Absent, strength |-> Absent,
     strength_clip |-> Absent, strengthClip |-> Absent,
     trigger_word |-> Absent, triggerWords |-> Absent]

\* the dict holding the fields that are not Absent
DictOf(fields) == [k \in {x \in DOMAIN fields : fields[x] # Absent} |-> fields[k]]

A == [AllAbsent EXCEPT !.lora = Str("a.st")]

\* configurations that differ in the identifier keys
IdentConfigs ==
    {DictOf([AllAbsent EXCEPT !.lora = l, !.file = f, !.name = n]) :
        l \in {Absent, Str("a.st"), Str(""), Str("None")},
        f \in {Absent, Str("b.st")},
        n \in {Absent, Str("c.st")}}

\* configurations that differ in the enabled / on keys
EnabledConfigs ==
    {DictOf([A EXCEPT !.enabled = e[1], !.on = e[2]]) :
        e \in {<<FalseV, Absent>>, <<NoneV, FalseV>>, <<Absent, FalseV>>, <<TrueV, FalseV>>}}

\* configurations that differ in the strength keys
StrengthConfigs ==
    {DictOf([A EXCEPT !.strength_model = sm, !.strength = s]) :
        sm \in {Absent, Num("0.0"), Num("0.5"), Str("abc")},
        s \in {Absent, Num("0.8")}}
    \cup
    {DictOf([A EXCEPT !.strength_model = v[1], !.strength = v[2],
                      !.strength_clip = v[3], !.strengthClip = v[4]]) :
        v \in {<<Absent, Absent, Num("0.3"), Absent>>,
               <<Absent, Absent, Absent, Num("0.4")>>,
               <<Absent, Absent, Num("0.3"), Num("0.4")>>,
               <<Num("0.5"), Absent, Absent, Num("0.4")>>,
               <<Absent, Num("0.8"), Num("0.3"), Absent>>,
               <<Absent, Str("0"), Absent, Absent>>,
               <<Absent, Str("abc"), Absent, Absent>>,
               <<Absent, Absent, Str("abc"), Absent>>}}

\* configurations that differ in the LoRA file and the trigger keys
TriggerConfigs ==
    {DictOf([AllAbsent EXCEPT !.lora = Str(v[1]), !.trigger_word = v[2], !.triggerWords = v[3]]) :
        v \in {<<"a.st", Absent, Str("tw")>>,
               <<"a.st", Absent, Str(" ")>>,
               <<"a.st", Str(" tw "), Absent>>,
               <<"a.st", Str("t2"), Str("tw")>>,
               <<"b.st", Absent, Absent>>,
               <<"b.st", Absent, Str("tb")>>,
               <<"c.st", Absent, Absent>>,
               <<"x.st", Absent, Absent>>,
               <<"x.st", Absent, Str("tx")>>,
               <<"m.st", Absent, Absent>>,
               <<"m.st", Absent, Str("tm")>>,
               <<"A.ST", Absent, Absent>>,
               <<"e.st", Absent, Absent>>}}

Configs == IdentConfigs \cup EnabledConfigs \cup StrengthConfigs \cup TriggerConfigs

Digit(n) == <<"1", "2", "3", "4", "5">>[n]

\* the widget values of a call, under the keys lora_1, lora_2, ...; a
\* configuration without a 'lora' key may also arrive under a key w_<n>
KeyedConfigs ==
    {pc \in {"lora_", "w_"} \X Configs : pc[1] = "w_" => "lora" \notin DOMAIN pc[2]}

\* the keyword arguments of a call with the keyed configurations pc
WidgetInput(pc) == [n \in DOMAIN pc |-> Widget(pc[n][1], Digit(n), pc[n][2])]

\* the keyword arguments of the old widget format, and three widget values
LegacyArgs ==
    {Scalar("LoRA ", v[1], Str(v[2])) :
        v \in {<<"1", "a.st">>, <<"1", "b.st">>, <<"2", "a.st">>, <<"2", "b.st">>,
               <<"1", "None">>, <<"x", "a.st">>}}
    \cup {Scalar("Enable ", v[1], v[2]) :
            v \in {<<"1", FalseV>>, <<"1", TrueV>>, <<"2", FalseV>>}}
    \cup {Scalar("Strength ", v[1], v[2]) :
            v \in {<<"1", Num("0.5")>>, <<"1", Str("abc")>>, <<"1", Num("0.0")>>,
                   <<"2", Num("0.5")>>, <<"2", Str("abc")>>}}
    \cup {Scalar("Trigger Words ", v[1], Str(v[2])) :
            v \in {<<"1", "tw">>, <<"2", "t2">>}}
    \cup {Widget("lora_", "9", DictOf([A EXCEPT !.triggerWords = Str("tw")])),
          Widget("w_", "8", DictOf([AllAbsent EXCEPT !.file = Str("b.st")])),
          Widget("w_", "7", DictOf([AllAbsent EXCEPT !.lora = Str("b.st"), !.enabled = FalseV]))}

\* kwargs is a dict: no key twice
DistinctKeys(kw) == \A n, m \in DOMAIN kw : n # m => kw[n].key # kw[m].key

\* request bodies of the civitai_info endpoint
Filenames == {"", "a.st", "b.st", "c.st", "e.st", "m.st", "/r2/e.st"}

\* an int argument
IntArg(n) == <<"int", n>>

\* values the header of t.st may hold under ss_tag_frequency: nothing, a flat
\* map with a tie, a map nested in maps and a list, a map with two keys equal
\* after stripping, a text json.loads rejects, a map with a blank key only,
\* a number instead of a str, and the JSON text of a number
TagFrequencyValues ==
    {NoValue,
     FreqMap(<<"cat", "dog", "bird">>, <<5, 5, 1>>),
     JsonText(JMap(<< <<"d1", JMap(<< <<"dog", JNum(2)>>, <<"cat", JNum(1)>> >>)>>,
                      <<"d2", JList(<<JMap(<< <<"cat", JNum(3)>> >>), JNum(7),
                                      JMap(<< <<"bird", JNum(1)>> >>)>>)>> >>), <<>>),
     FreqMap(<<"cat", " cat", "dog">>, <<3, 3, 1>>),
     RawText(<< <<"cat">>, <<"dog">> >>),
     FreqMap(<<" ">>, <<4>>),
     NumValue(5),
     JsonText(JNum(5), << <<"5">> >>)}

\* values under ss_trained_words: nothing, a JSON list with two elements
\* equal after stripping, a free text, the JSON texts [] and [" "], the text
\* ",", a list instead of a str, and a number
TrainedValues ==
    {NoValue,
     JsonList(<<"ta", " ta ", "tb">>,
              << <<"[\"ta\"">>, <<"\"", "ta", "\"">>, <<"\"tb\"]">> >>),
     RawText(<< <<"ta">>, <<"tb", "tc">> >>),
     JsonList(<<>>, << <<"[]">> >>),
     JsonList(<<" ">>, << <<"[\"", "\"]">> >>),
     RawText(<< <<>>, <<>> >>),
     ListValue(<<"tl", "tl", "tm">>),
     NumValue(7)}

\* the other items of the header
OtherItems ==
    {<<>>,
     << <<"trigger_words", RawText(<< <<"oa">>, <<"ob", "oc">> >>)>> >>,
     << <<"modelspec.trainedWords",
          JsonList(<<"oa", "oa", "od">>,
                   << <<"[\"oa\"">>, <<"\"oa\"">>, <<"\"od\"]">> >>)>> >>,
     << <<"Trigger", JsonText(JStr(" "), << <<"\"", "\"">> >>)>>,
        <<"trigger_words", RawText(<< <<"oa">> >>)>> >>,
     << <<"note", RawText(<< <<"nn">> >>)>>, <<"Trigger", ListValue(<<"ol">>)>> >>,
     << <<"Trigger", JsonText(JStr("os"), << <<"\"os\"">> >>)>>,
        <<"trigger_words", JsonList(<<"oa", "os">>, << <<"[\"oa\"">>, <<"\"os\"]">> >>)>> >>}

\* the item of a key, none when the key has no value
ItemOf(key, value) == IF value = NoValue THEN <<>> ELSE << <<key, value>> >>

\* the headers t.st may have: the mappings built from the values above, the
\* other items before or after the ss_ keys, and the three headers that give
\* no mapping
Headers ==
    {Header(IF first THEN o \o ItemOf("ss_tag_frequency", tf) \o ItemOf("ss_trained_words", tw)
            ELSE ItemOf("ss_tag_frequency", tf) \o ItemOf("ss_trained_words", tw) \o o) :
        tf \in TagFrequencyValues, tw \in TrainedValues, o \in OtherItems,
        first \in BOOLEAN}
    \cup {NoHeader, Unreadable, NotMapping}

\* identifiers handed to extract_trigger_words and _resolve_lora_full_path
Identifiers == {"t.st", "/r1/t.st", "m.st", "e.st", "/r2/e.st", "A.ST", ""}

\* a segment of the bundle; Absent stands for a key the segment does not
\* have, an absent text is '' and absent variables are {}
Segment(enabled, type, text, weight, variables) ==
    [enabled |-> enabled, type |-> type, text |-> text, weight |-> weight,
     variables |-> variables]

\* {"a": "{b}", "b": "X"}, {"x": "{{x}}"} and {"a": "Y"}
ChainVars == DictSet(DictSet(EmptyDict, <<"a">>, <<"{", "b", "}">>), <<"b">>, <<"X">>)
SelfVars == DictSet(EmptyDict, <<"x">>, <<"{", "{", "x", "}", "}">>)
PlainVars == DictSet(EmptyDict, <<"a">>, <<"Y">>)
\* {"a": " "}
BlankVars == DictSet(EmptyDict, <<"a">>, <<" ">>)

VariableDicts == {EmptyDict, ChainVars, SelfVars, PlainVars, BlankVars}

\* texts of segments: "{{a}}", "${a}", " {a}", "{{x}}", "k {u}",
\* "{{trigger.1}} ${trigger.sk}", "${u}{{a}}", "k", " " and ""
SegmentTexts ==
    {<<"{", "{", "a", "}", "}">>,
     <<"$", "{", "a", "}">>,
     <<" ", "{", "a", "}">>,
     <<"{", "{", "x", "}", "}">>,
     <<"k", " ", "{", "u", "}">>,
     <<"{", "{">> \o TriggerPrefix \o <<"1", "}", "}", " ", "$", "{">>
         \o TriggerPrefix \o <<"s", "k", "}">>,
     <<"$", "{", "u", "}", "{", "{", "a", "}", "}">>,
     <<"k">>,
     <<" ">>,
     <<>>}

\* the segments of the bundles: every text in a plain positive segment,
\* segments that carry variables (enabled, disabled or blank), and segments
\* with a type or a weight
Segments ==
    {Segment(Absent, "positive", text, Absent, EmptyDict) : text \in SegmentTexts}
    \cup {Segment(enabled, "positive", text, Absent, variables) :
             enabled \in {Absent, FalseV}, text \in {<<"k">>, <<" ">>},
             variables \in {ChainVars, SelfVars, PlainVars}}
    \cup {Segment(Absent, "positive", <<"k">>, Absent, BlankVars)}
    \cup {Segment(TrueV, type, <<"{", "a", "}">>, weight, EmptyDict) :
             type \in {"negative", "custom"}, weight \in {Num("1.0"), Num("0.8")}}
    \cup {Segment(TrueV, "custom", <<"{", "a", "}">>, Num("1"), EmptyDict),
          Segment(TrueV, "negative", <<"k">>, Num("1.004"), EmptyDict)}

\* a prompt_bundle: the JSON text of a list of segments, of an object with
\* (dict) or without (object) a 'segments' key, text that is no JSON
\* (invalid), or the empty string
Bundle(kind, segments) == [kind |-> kind, segments |-> segments]

\* "", "all x,sk" and "Sk b, 1, "
TriggerWordInputs ==
    {<<>>, <<"a", "l", "l", " ", "x", ",", "s", "k">>,
     <<"S", "k", " ", "b", ",", " ", "1", ",", " ">>}

\* the pairs (positive_override, negative_override): '' and '', ' ov' and
\* '', '' and '{a}', ' ' and ' '
Overrides ==
    {<<<<>>, <<>>>>, <<<<" ", "o", "v">>, <<>>>>, <<<<>>, <<"{", "a", "}">>>>,
     <<<<" ">>, <<" ">>>>}

----------------------------------------------------------------------------
(* The state machine: the node and the endpoint serve one call at a time;  *)
(* kwargs and model are the arguments of the call being served and result  *)
(* is its outcome.                                                         *)

Idle == Outcome("idle", FALSE, NoHandle, NoHandle, "", <<>>, <<>>)

Init ==
    /\ kwargs = <<>>
    /\ model = NoHandle
    /\ result = Idle
    /\ available = TRUE
    /\ header = NoHeader
    /\ NoStores

\* the graph executes the node with widget values
Execute ==
    /\ result.kind = "idle"
    /\ \E len \in 0..MaxEntries :
          \E pc \in [1..len -> KeyedConfigs], m \in {NoHandle, BaseHandle} :
             /\ kwargs' = WidgetInput(pc)
             /\ model' = m
             /\ result' = load_loras(available, m, BaseHandle, WidgetInput(pc))
             /\ UNCHANGED <<available, header, stores>>

\* the graph executes the node with keyword arguments of the old format
ExecuteLegacy ==
    /\ result.kind = "idle"
    /\ \E len \in 0..MaxLegacy :
          \E kw \in [1..len -> LegacyArgs] :
             /\ DistinctKeys(kw)
             /\ kwargs' = kw
             /\ model' = BaseHandle
             /\ result' = load_loras(available, BaseHandle, BaseHandle, kw)
             /\ UNCHANGED <<available, header, stores>>

\* POST /super_lora/civitai_info
CivitaiInfo ==
    /\ result.kind = "idle"
    /\ \E f \in Filenames :
          /\ result' = get_civitai_info(f)
          /\ kwargs' = <<Scalar("lora_filename", "", Str(f))>>
          /\ model' = NoHandle
          /\ UNCHANGED <<available, header, stores>>

\* the outcome is handed to the caller
Return ==
    /\ result.kind # "idle"
    /\ kwargs' = <<>>
    /\ model' = NoHandle
    /\ result' = Idle
    /\ UNCHANGED <<available, header, stores>>

Next == Execute \/ CivitaiInfo \/ Return

Spec == Init /\ [][Next]_vars

NextLegacy == ExecuteLegacy \/ Return

SpecLegacy == Init /\ [][NextLegacy]_vars

\* the module was imported without ComfyUI: the import of folder_paths and
\* nodes failed and COMFYUI_AVAILABLE is False
InitUnavailable ==
    /\ kwargs = <<>>
    /\ model = NoHandle
    /\ result = Idle
    /\ available = FALSE
    /\ header = NoHeader
    /\ NoStores

\* a file t.st with any of the headers is on disk
InitExtract ==
    /\ kwargs = <<>>
    /\ model = NoHandle
    /\ result = Idle
    /\ available = TRUE
    /\ header \in Headers
    /\ NoStores

\* extract_trigger_words(lora_identifier, max_words)
Extract ==
    /\ result.kind = "idle"
    /\ \E id \in Identifiers, mw \in 0..MaxWords :
          /\ kwargs' = <<Scalar("lora_identifier", "", Str(id)),
                         Scalar("max_words", "", IntArg(mw))>>
          /\ result' = Outcome("extract", ExtractOutcome(id, mw).raised, NoHandle, NoHandle,
                               "", ExtractOutcome(id, mw).words, <<>>)
          /\ model' = NoHandle
          /\ UNCHANGED <<available, header, stores>>

\* _resolve_lora_full_path(lora_identifier)
Resolve ==
    /\ result.kind = "idle"
    /\ \E id \in Identifiers :
          /\ kwargs' = <<Scalar("lora_identifier", "", Str(id))>>
          /\ result' = Outcome("resolve", FALSE, NoHandle, NoHandle,
                               resolve_lora_full_path(id), <<>>, <<>>)
          /\ model' = NoHandle
          /\ UNCHANGED <<available, header, stores>>

NextExtract == Extract \/ Resolve \/ Return

SpecExtract == InitExtract /\ [][NextExtract]_vars

NextUnavailable == Execute \/ ExecuteLegacy \/ Return

SpecUnavailable == InitUnavailable /\ [][NextUnavailable]_vars

\* NdSuperPromptBuilder.build_prompt(prompt_bundle, trigger_words,
\* positive_override, negative_override)
BuildPrompt ==
    /\ result.kind = "idle"
    /\ \E len \in 0..MaxSegments, kind \in {"list", "dict", "object", "invalid", "empty"} :
          \E segments \in [1..len -> Segments], tw \in TriggerWordInputs, ov \in Overrides :
             /\ kind \in {"list", "dict"} \/ len = 0
             /\ kwargs' = <<Scalar("prompt_bundle", "", Bundle(kind, segments)),
                            Scalar("trigger_words", "", tw),
                            Scalar("positive_override", "", ov[1]),
                            Scalar("negative_override", "", ov[2])>>
             /\ result' = build_prompt(Bundle(kind, segments), tw, ov[1], ov[2])
             /\ model' = NoHandle
             /\ UNCHANGED <<available, header, stores>>

\* NdSuperPromptBuilder._substitute_variables(text, variables): words holds
\* the characters of the returned text
Substitute ==
    /\ result.kind = "idle"
    /\ \E text \in SegmentTexts, variables \in VariableDicts :
          /\ kwargs' = <<Scalar("text", "", text), Scalar("variables", "", variables)>>
          /\ result' = Outcome("substitute", FALSE, NoHandle, NoHandle,
                               Cat(substitute_variables(text, variables)),
                               substitute_variables(text, variables), <<>>)
          /\ model' = NoHandle
          /\ UNCHANGED <<available, header, stores>>

\* NdSuperPromptBuilder._build_variable_context(trigger_words, segments):
\* log holds the returned dict
BuildContext ==
    /\ result.kind = "idle"
    /\ \E len \in 0..1 :
          \E segments \in [1..len -> Segments], tw \in TriggerWordInputs :
             /\ kwargs' = <<Scalar("trigger_words", "", tw),
                            Scalar("segments", "", segments)>>
             /\ result' = Outcome("context", FALSE, NoHandle, NoHandle, "", <<>>,
                                  <<build_variable_context(tw, segments)>>)
             /\ model' = NoHandle
             /\ UNCHANGED <<available, header, stores>>

NextPrompt == BuildPrompt \/ Substitute \/ BuildContext \/ Return

SpecPrompt == Init /\ [][NextPrompt]_vars

----------------------------------------------------------------------------
(* The stores behind the web API: one request is served at a time, the     *)
(* clock has advanced when the next one arrives                            *)

Text(t) == <<"text", t>>

\* the history a PromptManager loads at start: n records, the one added
\* last first
InitialHistory(n) ==
    [i \in 1..n |->
        HistoryEntry(EntryId("hist_old", n - i + 1),
                     CASE i % 3 = 1 -> <<"S", "a">>
                       [] i % 3 = 2 -> <<"a", "b">>
                       [] OTHER -> <<>>,
                     IF i % 2 = 0 THEN <<"S", "a">> ELSE <<>>)]

HistorySizes == {0, 2, max_history - 1, max_history}

InitialFavorites ==
    <<FavoriteEntry("fav_old_1", "n1", <<"S", "a">>, <<>>),
      FavoriteEntry("fav_old_2", "n2", <<"a", "b">>, <<>>)>>

SegmentsA == <<"list", "[a]">>
SegmentsB == <<"list", "[b]">>

InitialTemplates == DictSet(EmptyDict, "t1", TemplateEntry("t1", SegmentsA))

InitialLoraTemplates == DictSet(EmptyDict, "t1", SegmentsA)

InitialFiles(h, f, t) ==
    [history |-> File(h), favorites |-> File(f), templates |-> File(t)]

NameValues == {Absent, NoneV, Str(""), Str("t1"), Str("t2")}
FavoriteNames == {Absent, Str(""), Str("n1")}
HistoryIds == {Absent, Str(""), Str("hist_old_1"), Str("hist_old_2"),
               Str("hist_0")}
FavoriteIds == {Absent, Str(""), Str("fav_old_1"), Str("fav_0")}
TextValues == {Absent, Text(<<"S", "a">>), Text(<<"a", "b">>)}
SegmentValues == {Absent, SegmentsB}
Queries == {Absent, Text(<<"s">>), Text(<<"A">>), Text(<<"a", "b">>),
            Text(<<"z">>)}
Limits == {Absent, Str("0"), Str("1"), Str("2"), Str("-1"), Str("x")}

\* the fresh install and a populated one
InitStore ==
    /\ kwargs = <<>>
    /\ model = NoHandle
    /\ result = Idle
    /\ available = TRUE
    /\ header = NoHeader
    /\ now = 0
    /\ \/ /\ history = <<>>
          /\ favorites = <<>>
          /\ templates = EmptyDict
          /\ lora_templates = EmptyDict
          /\ files = NoFiles
       \/ /\ history = InitialHistory(2)
          /\ favorites = InitialFavorites
          /\ templates = InitialTemplates
          /\ lora_templates = InitialLoraTemplates
          /\ files = InitialFiles(history, favorites, templates)

\* a PromptManager whose prompt_history.json holds up to max_history records
InitHistory ==
    /\ kwargs = <<>>
    /\ model = NoHandle
    /\ result = Idle
    /\ available = TRUE
    /\ header = NoHeader
    /\ now = 0
    /\ \E n \in HistorySizes : history = InitialHistory(n)
    /\ favorites = <<>>
    /\ templates = EmptyDict
    /\ lora_templates = EmptyDict
    /\ files = InitialFiles(history, favorites, templates)

\* add_prompt_history(request)
AddPromptHistory ==
    /\ result.kind = "idle"
    /\ now < MaxClock
    /\ \E positive \in TextValues, negative \in TextValues,
          outcome \in WriteOutcomes :
          LET data == [positive |-> positive, negative |-> negative]
              call == add_to_history(history, TextField(data, "positive"),
                                     TextField(data, "negative"), now)
          IN  /\ kwargs' = <<data>>
              /\ history' = call.entries
              /\ files' = [files EXCEPT
                              !.history = Persisted(@, call, outcome)]
              /\ result' = Response("add_prompt_history", 200, Absent, TrueV,
                                    Str(call.ret), <<>>)
    /\ now' = now + 1
    /\ UNCHANGED <<model, available, header, favorites, templates,
                   lora_templates>>

\* delete_prompt_history(request)
DeletePromptHistory ==
    /\ result.kind = "idle"
    /\ now < MaxClock
    /\ \E id \in HistoryIds, outcome \in WriteOutcomes :
          LET data == [id |-> id]
              entry_id == Field(data, "id")
              call == delete_entry(history, entry_id[2])
          IN  /\ kwargs' = <<data>>
              /\ IF Missing(entry_id)
                 THEN /\ result' = Rejected("delete_prompt_history", 400,
                                            "Entry ID required")
                      /\ UNCHANGED <<history, files>>
                 ELSE /\ history' = call.entries
                      /\ files' = [files EXCEPT
                                      !.history = Persisted(@, call, outcome)]
                      /\ result' = Answered("delete_prompt_history", call.ret)
    /\ now' = now + 1
    /\ UNCHANGED <<model, available, header, favorites, templates,
                   lora_templates>>

\* clear_prompt_history(request)
ClearPromptHistory ==
    /\ result.kind = "idle"
    /\ now < MaxClock
    /\ \E outcome \in WriteOutcomes :
          LET call == clear_history
          IN  /\ kwargs' = <<>>
              /\ history' = call.entries
              /\ files' = [files EXCEPT
                              !.history = Persisted(@, call, outcome)]
              /\ result' = Answered("clear_prompt_history",
                                    Returned(call, outcome))
    /\ now' = now + 1
    /\ UNCHANGED <<model, available, header, favorites, templates,
                   lora_templates>>

\* search_prompt_history(request)
SearchPromptHistory ==
    /\ result.kind = "idle"
    /\ now < MaxClock
    /\ \E q \in Queries, limit \in Limits :
          LET query == [q |-> q, limit |-> limit]
              text == IF q[1] = "absent" THEN <<>> ELSE q[2]
              parsed == ParseInt(QueryParam(query, "limit", "20"))
          IN  /\ kwargs' = <<query>>
              /\ result' =
                    IF parsed.raises
                    THEN Rejected("search_prompt_history", 500,
                                  "invalid literal for int()")
                    ELSE Response("search_prompt_history", 200, Absent,
                                  Absent, Absent,
                                  search_history(history, text, parsed.value))
    /\ now' = now + 1
    /\ UNCHANGED <<model, available, header, history, favorites, templates,
                   lora_templates, files>>

\* add_prompt_favorite(request)
AddPromptFavorite ==
    /\ result.kind = "idle"
    /\ now < MaxClock
    /\ \E n \in FavoriteNames, positive \in TextValues,
          outcome \in WriteOutcomes :
          LET data == [name |-> n, positive |-> positive, negative |-> Absent]
              name == Field(data, "name")
              call == add_to_favorites(favorites, name[2],
                                       TextField(data, "positive"),
                                       TextField(data, "negative"), now)
          IN  /\ kwargs' = <<data>>
              /\ IF Missing(name)
                 THEN /\ result' = Rejected("add_prompt_favorite", 400,
                                            "Name required")
                      /\ UNCHANGED <<favorites, files>>
                 ELSE /\ favorites' = call.entries
                      /\ files' = [files EXCEPT
                                      !.favorites =
                                          Persisted(@, call, outcome)]
                      /\ result' = Response("add_prompt_favorite", 200, Absent,
                                            TrueV, Str(call.ret), <<>>)
    /\ now' = now + 1
    /\ UNCHANGED <<model, available, header, history, templates,
                   lora_templates>>

\* delete_prompt_favorite(request)
DeletePromptFavorite ==
    /\ result.kind = "idle"
    /\ now < MaxClock
    /\ \E id \in FavoriteIds, outcome \in WriteOutcomes :
          LET data == [id |-> id]
              entry_id == Field(data, "id")
              call == delete_entry(favorites, entry_id[2])
          IN  /\ kwargs' = <<data>>
              /\ IF Missing(entry_id)
                 THEN /\ result' = Rejected("delete_prompt_favorite", 400,
                                            "Entry ID required")
                      /\ UNCHANGED <<favorites, files>>
                 ELSE /\ favorites' = call.entries
                      /\ files' = [files EXCEPT
                                      !.favorites =
                                          Persisted(@, call, outcome)]
                      /\ result' = Answered("delete_prompt_favorite", call.ret)
    /\ now' = now + 1
    /\ UNCHANGED <<model, available, header, history, templates,
                   lora_templates>>

\* rename_prompt_favorite(request)
RenamePromptFavorite ==
    /\ result.kind = "idle"
    /\ now < MaxClock
    /\ \E id \in FavoriteIds, n \in FavoriteNames, outcome \in WriteOutcomes :
          LET data == [id |-> id, name |-> n]
              entry_id == Field(data, "id")
              new_name == Field(data, "name")
              call == rename_favorite(favorites, entry_id[2], new_name[2])
          IN  /\ kwargs' = <<data>>
              /\ IF Missing(entry_id) \/ Missing(new_name)
                 THEN /\ result' = Rejected("rename_prompt_favorite", 400,
                                            "ID and name required")
                      /\ UNCHANGED <<favorites, files>>
                 ELSE /\ favorites' = call.entries
                      /\ files' = [files EXCEPT
                                      !.favorites =
                                          Persisted(@, call, outcome)]
                      /\ result' = Answered("rename_prompt_favorite",
                                            Returned(call, outcome))
    /\ now' = now + 1
    /\ UNCHANGED <<model, available, header, history, templates,
                   lora_templates>>

\* save_prompt_template(request)
SavePromptTemplate ==
    /\ result.kind = "idle"
    /\ now < MaxClock
    /\ \E n \in NameValues, segments \in SegmentValues,
          outcome \in WriteOutcomes :
          LET data == [name |-> n, segments |-> segments]
              name == Field(data, "name")
              call == save_template(templates, name[2],
                                    ListField(data, "segments"))
          IN  /\ kwargs' = <<data>>
              /\ IF Missing(name)
                 THEN /\ result' = Rejected("save_prompt_template", 400,
                                            "Name required")
                      /\ UNCHANGED <<templates, files>>
                 ELSE /\ templates' = call.entries
                      /\ files' = [files EXCEPT
                                      !.templates =
                                          Persisted(@, call, outcome)]
                      /\ result' = Answered("save_prompt_template",
                                            Returned(call, outcome))
    /\ now' = now + 1
    /\ UNCHANGED <<model, available, header, history, favorites,
                   lora_templates>>

\* delete_prompt_template(request)
DeletePromptTemplate ==
    /\ result.kind = "idle"
    /\ now < MaxClock
    /\ \E n \in NameValues, outcome \in WriteOutcomes :
          LET data == [name |-> n]
              name == Field(data, "name")
              call == delete_template(templates, name[2])
          IN  /\ kwargs' = <<data>>
              /\ IF Missing(name)
                 THEN /\ result' = Rejected("delete_prompt_template", 400,
                                            "Name required")
                      /\ UNCHANGED <<templates, files>>
                 ELSE /\ templates' = call.entries
                      /\ files' = [files EXCEPT
                                      !.templates =
                                          Persisted(@, call, outcome)]
                      /\ result' = Answered("delete_prompt_template",
                                            Returned(call, outcome))
    /\ now' = now + 1
    /\ UNCHANGED <<model, available, header, history, favorites,
                   lora_templates>>

\* rename_prompt_template(request)
RenamePromptTemplate ==
    /\ result.kind = "idle"
    /\ now < MaxClock
    /\ \E old \in NameValues, new \in NameValues, outcome \in WriteOutcomes :
          LET data == [old_name |-> old, new_name |-> new]
              old_name == Field(data, "old_name")
              new_name == Field(data, "new_name")
              call == rename_template(templates, old_name[2], new_name[2])
          IN  /\ kwargs' = <<data>>
              /\ IF Missing(old_name) \/ Missing(new_name)
                 THEN /\ result' = Rejected("rename_prompt_template", 400,
                                            "Both old and new names required")
                      /\ UNCHANGED <<templates, files>>
                 ELSE /\ templates' = call.entries
                      /\ files' = [files EXCEPT
                                      !.templates =
                                          Persisted(@, call, outcome)]
                      /\ result' = Answered("rename_prompt_template",
                                            Returned(call, outcome))
    /\ now' = now + 1
    /\ UNCHANGED <<model, available, header, history, favorites,
                   lora_templates>>

\* save_template(request), the LoRA template endpoint; saved is what
\* TemplateManager.save_template returns
SaveTemplate ==
    /\ result.kind = "idle"
    /\ now < MaxClock
    /\ \E action \in {Absent, Str("delete")}, n \in NameValues,
          lora_configs \in SegmentValues, loras \in {Absent, SegmentsA},
          saved \in BOOLEAN :
          LET data == [action |-> action, name |-> n,
                       lora_configs |-> lora_configs, loras |-> loras]
              name == Field(data, "name")
              configs == IF Field(data, "lora_configs") = NoneV
                         THEN ListField(data, "loras")
                         ELSE Field(data, "lora_configs")
              deleted == lora_delete_template(lora_templates, name[2])
          IN  /\ kwargs' = <<data>>
              /\ IF Missing(name)
                 THEN /\ result' = Rejected("save_template", 400,
                                            "Template name is required")
                      /\ UNCHANGED lora_templates
                 ELSE IF Field(data, "action") = Str("delete")
                 THEN /\ lora_templates' = deleted.entries
                      /\ result' =
                            IF deleted.ret
                            THEN Answered("save_template", TRUE)
                            ELSE Rejected("save_template", 404,
                                "Template not found or could not be deleted")
                 ELSE IF saved
                 THEN /\ lora_templates' =
                            lora_save_template(lora_templates, name[2],
                                               configs)
                      /\ result' = Answered("save_template", TRUE)
                 ELSE /\ UNCHANGED lora_templates
                      /\ result' = Rejected("save_template", 500,
                                            "Failed to save template")
    /\ now' = now + 1
    /\ UNCHANGED <<model, available, header, history, favorites, templates,
                   files>>

\* delete_template(request), with the name in the body, and
\* delete_template_by_name(request), with the name in the path
DeleteTemplate ==
    /\ result.kind = "idle"
    /\ now < MaxClock
    /\ \E endpoint \in {"delete_template", "delete_template_by_name"},
          n \in NameValues :
          LET data == [name |-> n]
              name == Field(data, "name")
              deleted == lora_delete_template(lora_templates, name[2])
          IN  /\ kwargs' = <<data>>
              /\ IF Missing(name)
                 THEN /\ result' = Rejected(endpoint, 400,
                                            "Template name is required")
                      /\ UNCHANGED lora_templates
                 ELSE /\ lora_templates' = deleted.entries
                      /\ result' =
                            IF deleted.ret
                            THEN Answered(endpoint, TRUE)
                            ELSE Rejected(endpoint, 404, "Template not found")
    /\ now' = now + 1
    /\ UNCHANGED <<model, available, header, history, favorites, templates,
                   files>>

\* the server starts again: PromptManager.__init__ and _load_data
Restart ==
    /\ result.kind = "idle"
    /\ now < MaxClock
    /\ history' = load_json(files.history, <<>>)
    /\ favorites' = load_json(files.favorites, <<>>)
    /\ templates' = load_json(files.templates, EmptyDict)
    /\ now' = now + 1
    /\ UNCHANGED <<kwargs, model, result, available, header, lora_templates,
                   files>>

NextHistory ==
    \/ AddPromptHistory
    \/ DeletePromptHistory
    \/ ClearPromptHistory
    \/ SearchPromptHistory
    \/ Return

SpecHistory == InitHistory /\ [][NextHistory]_vars

NextStore ==
    \/ AddPromptHistory
    \/ DeletePromptHistory
    \/ ClearPromptHistory
    \/ SearchPromptHistory
    \/ AddPromptFavorite
    \/ DeletePromptFavorite
    \/ RenamePromptFavorite
    \/ SavePromptTemplate
    \/ DeletePromptTemplate
    \/ RenamePromptTemplate
    \/ SaveTemplate
    \/ DeleteTemplate
    \/ Restart
    \/ Return

SpecStore == InitStore /\ [][NextStore]_vars

----------------------------------------------------------------------------
(* Vocabulary of the properties *)

\* the weight-application calls of a log: <<file, model strength, clip strength>>
RECURSIVE Loads(_)
Loads(log) ==
    IF Len(log) = 0 THEN <<>>
    ELSE (IF log[1].op = "load" THEN <<<<log[1].id, log[1].sm, log[1].sc>>>> ELSE <<>>)
         \o Loads(Tail(log))

\* two outcomes with the same weight-application calls and trigger string
SameBehaviour(r1, r2) ==
    /\ r1.raised = r2.raised
    /\ Loads(r1.log) = Loads(r2.log)
    /\ r1.text = r2.text

\* the outcome of the served call is one of load_loras
Served == result.kind = "load_loras"

\* lora_configs of the served call
Entries == LoraConfigs(kwargs)

\* the events entry i caused
EventsOf(i) == {n \in DOMAIN result.log : result.log[n].i = i}

IsLegacyKey(it) ==
    /\ ~it.dict
    /\ it.key.prefix \in {"LoRA ", "Enable ", "Strength ", "Trigger Words "}

\* the slot suffixes of the well-formed legacy keys, in order of first appearance
RECURSIVE SlotOrder(_, _)
SlotOrder(kw, seen) ==
    IF Len(kw) = 0 THEN seen
    ELSE SlotOrder(Tail(kw),
                   IF /\ IsLegacyKey(kw[1])
                      /\ ~IntRaises(kw[1].key.rest)
                      /\ \A n \in DOMAIN seen : seen[n] # kw[1].key.rest
                   THEN Append(seen, kw[1].key.rest) ELSE seen)

FieldOf(prefix) ==
    CASE prefix = "LoRA " -> "lora"
      [] prefix = "Enable " -> "enabled"
      [] prefix = "Strength " -> "strength"
      [] OTHER -> "triggerWords"

\* the mapping that carries the values the legacy keys give for one slot
SlotMapping(kw, slot) ==
    LET mine == {n \in DOMAIN kw : IsLegacyKey(kw[n]) /\ kw[n].key.rest = slot}
    IN  [f \in {FieldOf(kw[n].key.prefix) : n \in mine} |->
            kw[CHOOSE n \in mine : FieldOf(kw[n].key.prefix) = f].val]

\* the structured input equivalent to a legacy input: one mapping per slot
StructuredOf(kw) ==
    LET order == SlotOrder(kw, <<>>)
    IN  [n \in DOMAIN order |-> Widget("lora_", order[n], SlotMapping(kw, order[n]))]

----------------------------------------------------------------------------
(* C1 *)

\* C1: a legacy flat-indexed input and the structured input carrying the
\* same per-slot values in the same order give the same weight-application
\* calls and the same combined trigger string.
C1_ShapeInvariance ==
    (Served /\ \A n \in DOMAIN kwargs : IsLegacyKey(kwargs[n]))
        => SameBehaviour(result, load_loras(TRUE, model, BaseHandle, StructuredOf(kwargs)))

\* The two shapes do agree on the inputs in which every "Strength n" value is
\* one float() accepts.
C1_ShapeInvarianceCoercible ==
    (/\ Served
     /\ \A n \in DOMAIN kwargs : IsLegacyKey(kwargs[n])
     /\ \A n \in DOMAIN kwargs :
           kwargs[n].key.prefix = "Strength " => ~FloatRaises(kwargs[n].val))
        => SameBehaviour(result, load_loras(TRUE, model, BaseHandle, StructuredOf(kwargs)))

----------------------------------------------------------------------------
(* C2 *)

\* a widget value one of whose strengths float() rejects
BadStrength(it) == it.dict /\ StrengthRaises(it.cfg)

GoodStrength(it) == ~BadStrength(it)

\* C2: an entry whose strength cannot be coerced to a float is dropped and
\* affects nothing else: load_loras does not raise and behaves as it does for
\* the batch without that entry.
C2_BadStrengthDropsOnlyItsEntry ==
    (Served /\ \E n \in DOMAIN kwargs : BadStrength(kwargs[n]))
        => /\ ~result.raised
           /\ SameBehaviour(result,
                            load_loras(TRUE, model, BaseHandle, SelectSeq(kwargs, GoodStrength)))

----------------------------------------------------------------------------
(* C3 *)

\* an entry that is disabled, has no identifier or the identifier "None", or
\* has a primary strength of 0
Inert(config) ==
    \/ Get(config, "enabled", NoneV) = FalseV
    \/ LoraName(config) \in {Str(""), Str("None")}
    \/ (~StrengthRaises(config) /\ StrengthModel(config) = "0.0")

----------------------------------------------------------------------------
(* C4 *)

\* the input holds a value load_loras takes as a widget configuration
HasStructured(kw) ==
    \E n \in DOMAIN kw :
        kw[n].dict /\ ("lora" \in DOMAIN kw[n].cfg \/ kw[n].key.prefix = "lora_")

NotLegacyKey(it) == ~IsLegacyKey(it)

----------------------------------------------------------------------------
(* C5 *)

\* the value of the first identifier key that is present
FirstPresentIdentifier(config) ==
    IF "lora" \in DOMAIN config THEN config["lora"]
    ELSE IF "file" \in DOMAIN config THEN config["file"]
    ELSE IF "name" \in DOMAIN config THEN config["name"]
    ELSE NoneV

\* C5: the identifier of a structured entry is the value of lora if that key
\* is present, else of file, else of name; an enabled entry without a lora
\* key whose file or name key names an existing LoRA is applied under it.
C5_IdentifierFirstPresentWins ==
    (Served /\ ~result.raised /\ ~model.none)
        => \A i \in DOMAIN Entries :
              LET path == get_lora_by_filename(StrOf(FirstPresentIdentifier(Entries[i])))
                  loads == {n \in EventsOf(i) : result.log[n].op = "load"}
              IN  /\ \A n \in loads : result.log[n].id = path
                  /\ (/\ "lora" \notin DOMAIN Entries[i]
                      /\ path # ""
                      /\ Enabled(Entries[i])
                      /\ StrengthModel(Entries[i]) # "0.0")
                        => loads # {}

----------------------------------------------------------------------------
(* C6 *)

\* C6: an entry with neither strength_clip nor strengthClip is applied with a
\* clip strength equal to its model strength, whichever of strength_model
\* and strength it carries.
C6_ClipStrengthFallsBackToPrimary ==
    Served
        => \A n \in DOMAIN result.log :
              (/\ result.log[n].op = "load"
               /\ "strength_clip" \notin DOMAIN Entries[result.log[n].i]
               /\ "strengthClip" \notin DOMAIN Entries[result.log[n].i])
                 => result.log[n].sc = result.log[n].sm

----------------------------------------------------------------------------
(* C7 *)

\* the events of kind op that entry i caused
OpsOf(i, op) == {n \in EventsOf(i) : result.log[n].op = op}

----------------------------------------------------------------------------
(* C8 *)

\* every remote lookup of the log follows a metadata extraction for the same
\* entry that returned nothing
RemoteFollowsEmptyMeta ==
    \A r \in DOMAIN result.log :
        result.log[r].op = "remote"
           => \E m \in DOMAIN result.log :
                 /\ m < r
                 /\ result.log[m].op = "meta"
                 /\ result.log[m].i = result.log[r].i
                 /\ result.log[m].ret = <<>>

\* C8 as stated: in load_loras and in get_civitai_info a remote lookup happens
\* only after metadata extraction was attempted and returned nothing.
C8_RemoteOnlyAfterLocalMiss ==
    result.kind \in {"load_loras", "civitai_info"} => RemoteFollowsEmptyMeta

\* C8 amended: load_loras calls the remote lookup only after an empty
\* metadata extraction; get_civitai_info calls the remote lookup first and
\* extracts metadata only when the remote lookup returned nothing.
C8_RemoteOrderPerOperation ==
    /\ Served => RemoteFollowsEmptyMeta
    /\ result.kind = "civitai_info"
          => /\ result.log[1].op = "remote"
             /\ \A m \in DOMAIN result.log :
                   result.log[m].op = "meta" => (m > 1 /\ result.log[1].ret = <<>>)
             /\ result.log[1].ret = <<>> => Len(result.log) = 2

\* load_loras asked the remote service for b.st after its metadata gave nothing
C8_Witness ==
    /\ Served
    /\ \E r \in DOMAIN result.log :
          /\ result.log[r].op = "remote"
          /\ result.log[r].id = "b.st"
          /\ result.log[r - 1].op = "meta"
          /\ result.log[r - 1].ret = <<>>
    /\ result.text = "rb"

----------------------------------------------------------------------------
(* C9 *)

\* the final phrase of entry i: its explicit phrase, else the phrase the
\* fallback chain recorded for it, else blank
FinalPhrase(i) ==
    IF TriggerWord(Entries[i]) # "" THEN TriggerWord(Entries[i])
    ELSE IF OpsOf(i, "word") # {}
         THEN result.log[CHOOSE w \in OpsOf(i, "word") : TRUE].id
    ELSE ""

\* the host's load call raised for entry i (C10: such an entry is excluded)
LoadRaised(i) == \E n \in OpsOf(i, "load") : ~result.log[n].ok

\* the non-blank final phrases of the active entries from entry i on
RECURSIVE ActivePhrases(_)
ActivePhrases(i) ==
    IF i > Len(Entries) THEN <<>>
    ELSE (IF ~Skipped(Entries[i]) /\ ~LoadRaised(i) /\ FinalPhrase(i) # ""
          THEN <<FinalPhrase(i)>> ELSE <<>>)
         \o ActivePhrases(i + 1)

\* C9: the combined trigger string is the ", "-join, in entry order, of the
\* final phrases of the active entries; an active entry with a non-blank
\* explicit phrase always contributes it, also when its identifier resolves
\* to no file or no model handle is supplied.
C9_CombinedIsJoinOfActivePhrases ==
    (Served /\ ~result.raised) => result.text = Join(ActivePhrases(1))

----------------------------------------------------------------------------
(* C10 *)

\* entry j is reached and loaded: it is not skipped and names a catalog file
Loadable(j) ==
    /\ ~Skipped(Entries[j])
    /\ get_lora_by_filename(StrOf(LoraName(Entries[j]))) # ""

----------------------------------------------------------------------------
(* C11 *)

\* the weight-application calls of the served call, as indices of its log
LoadCalls == {n \in DOMAIN result.log : result.log[n].op = "load"}

\* the handles returned by the most recent successful weight application
\* before position n of the log, the caller's handles when there is none
HandlesBefore(n) ==
    LET done == {p \in LoadCalls : p < n /\ result.log[p].ok}
    IN  IF done = {} THEN <<model, BaseHandle>>
        ELSE LET p == CHOOSE x \in done : \A y \in done : y <= x
             IN  load_lora(result.log[p].min, result.log[p].cin, result.log[p].id,
                           result.log[p].sm, result.log[p].sc)

\* C11: the weight-application calls of one load_loras invocation are made
\* in input-entry order, each is passed the handles the most recent earlier
\* successful call returned (the caller's handles when there is none), and
\* load_loras returns the handles of the last successful call.
C11_SequentialComposition ==
    Served
        => /\ \A n, p \in LoadCalls : n < p => result.log[n].i < result.log[p].i
           /\ \A n \in LoadCalls :
                 /\ result.log[n].i \in DOMAIN Entries
                 /\ result.log[n].id =
                       get_lora_by_filename(StrOf(LoraName(Entries[result.log[n].i])))
                 /\ <<result.log[n].min, result.log[n].cin>> = HandlesBefore(n)
           /\ ~result.raised
                 => <<result.model, result.clip>> = HandlesBefore(Len(result.log) + 1)

\* a.st then b.st: b.st is applied to the handles the a.st call returned and
\* load_loras returns the handles carrying both applications in that order
C11_Witness ==
    /\ Served
    /\ ~result.raised
    /\ Cardinality(LoadCalls) = 2
    /\ \A n \in LoadCalls : result.log[n].ok
    /\ \E n \in LoadCalls :
          /\ result.log[n].id = "b.st"
          /\ result.log[n].min.applied = << <<"a.st", "0.5">> >>
          /\ result.log[n].cin.applied = << <<"a.st", "0.8">> >>
    /\ result.model.applied = << <<"a.st", "0.5">>, <<"b.st", "1.0">> >>
    /\ result.clip.applied = << <<"a.st", "0.8">>, <<"b.st", "1.0">> >>

----------------------------------------------------------------------------
(* C12 *)

\* C12: when the host environment is unavailable, load_loras returns the
\* model and clip handles it was given and an empty trigger string for every
\* input, malformed entries included, without raising and without a
\* weight-application, metadata or remote call.
C12_PassthroughWhenUnavailable ==
    (Served /\ ~available)
        => /\ ~result.raised
           /\ result.model = model
           /\ result.clip = BaseHandle
           /\ result.text = ""
           /\ result.log = <<>>

\* a call with a model, a loadable entry and an entry whose strength float()
\* rejects, served while ComfyUI is unavailable
C12_Witness ==
    /\ Served
    /\ ~available
    /\ ~model.none
    /\ \E n \in DOMAIN kwargs : BadStrength(kwargs[n])
    /\ \E n \in DOMAIN kwargs :
          /\ kwargs[n].dict
          /\ ~StrengthRaises(kwargs[n].cfg)
          /\ ~Skipped(kwargs[n].cfg)
          /\ get_lora_by_filename(StrOf(LoraName(kwargs[n].cfg))) = "a.st"
    /\ result.model = model
    /\ result.text = ""

----------------------------------------------------------------------------
(* C13 *)

\* the identifier of the served extract or resolve call
Identifier == kwargs[1].val[2]

\* the search roots under which the identifier names an existing file
RootsHolding(id) == {d \in DOMAIN lora_dirs : Exists(PathJoin(lora_dirs[d], id))}

\* C13: for a relative identifier that exists under a search root the
\* resolver returns the identifier joined with the first such root, also when
\* that is not the first root of the list; it returns absent only when the
\* file exists under no root.
C13_ResolverConsultsEveryRoot ==
    (result.kind = "resolve" /\ ~IsAbs(Identifier))
        => LET roots == RootsHolding(Identifier)
           IN  /\ roots # {}
                     => result.text =
                          PathJoin(lora_dirs[CHOOSE d \in roots : \A x \in roots : d <= x],
                                   Identifier)
               /\ result.text = "" => roots = {}

----------------------------------------------------------------------------
(* C14 *)

\* max_words of the served extract call
MaxWordsArg == kwargs[2].val[2]

\* the served call is an extract_trigger_words call that read the header of
\* t.st and found a mapping
ReadsHeader ==
    /\ result.kind = "extract"
    /\ Identifier \in {"t.st", "/r1/t.st"}
    /\ header.kind = "mapping"

\* the (phrase, count) pairs of the frequency map in flattening order
FrequencyPairs == Leaves(MetaGet(header, "ss_tag_frequency").node)

FrequencyKeys == {FrequencyPairs[n][1] : n \in DOMAIN FrequencyPairs}

\* the sum of the counts the pairs from position n on give for the phrase k
RECURSIVE CountFrom(_, _)
CountFrom(k, n) ==
    IF n > Len(FrequencyPairs) THEN 0
    ELSE (IF FrequencyPairs[n][1] = k THEN FrequencyPairs[n][2] ELSE 0) + CountFrom(k, n + 1)

AggregatedCount(k) == CountFrom(k, 1)

FirstSeen(k) ==
    CHOOSE n \in DOMAIN FrequencyPairs :
        /\ FrequencyPairs[n][1] = k
        /\ \A m \in DOMAIN FrequencyPairs : FrequencyPairs[m][1] = k => n <= m

\* k1 comes before k2: larger aggregated count, or the same and seen first
RanksBefore(k1, k2) ==
    \/ AggregatedCount(k1) > AggregatedCount(k2)
    \/ AggregatedCount(k1) = AggregatedCount(k2) /\ FirstSeen(k1) < FirstSeen(k2)

\* the best ranked key of the map that reads as the phrase w once trimmed
KeyOf(w) ==
    CHOOSE k \in FrequencyKeys :
        /\ Strip(k) = w
        /\ \A k2 \in FrequencyKeys : (Strip(k2) = w /\ k2 # k) => RanksBefore(k, k2)

\* the header has an ss_tag_frequency text that parses and holds a non-blank
\* phrase with a count
HasFrequencyMap ==
    /\ MetaGet(header, "ss_tag_frequency").type = "str"
    /\ MetaGet(header, "ss_tag_frequency").parses
    /\ \E k \in FrequencyKeys : Strip(k) # ""

\* C14: with a parseable ss_tag_frequency map, nested or not, the returned
\* phrases are phrases of the map in descending order of aggregated count
\* (counts of one phrase in several nested maps summed), equal counts in
\* first-seen order, and no phrase ranked before a returned one is left out;
\* {"cat":5, "dog":5, "bird":1} with max_words 2 gives ["cat", "dog"].
C14_FrequencyMapOrdering ==
    (ReadsHeader /\ HasFrequencyMap)
        => /\ \A i \in DOMAIN result.words :
                 \E k \in FrequencyKeys : Strip(k) = result.words[i]
           /\ \A i, j \in DOMAIN result.words :
                 i < j => RanksBefore(KeyOf(result.words[i]), KeyOf(result.words[j]))
           /\ \A i \in DOMAIN result.words : \A k \in FrequencyKeys :
                 (Strip(k) # "" /\ RanksBefore(k, KeyOf(result.words[i])))
                    => \E j \in 1..(i - 1) : result.words[j] = Strip(k)
           /\ (/\ MetaGet(header, "ss_tag_frequency")
                     = FreqMap(<<"cat", "dog", "bird">>, <<5, 5, 1>>)
               /\ MaxWordsArg = 2)
                 => result.words = <<"cat", "dog">>

\* the nested map gives dog 2, cat 1 + 3 and bird 1: cat comes first by its
\* summed count, and dog precedes bird
C14_Witness ==
    /\ ReadsHeader
    /\ HasFrequencyMap
    /\ FrequencyPairs = << <<"dog", 2>>, <<"cat", 1>>, <<"cat", 3>>, <<"bird", 1>> >>
    /\ MaxWordsArg = 3
    /\ result.words = <<"cat", "dog", "bird">>

----------------------------------------------------------------------------
(* C15 *)

\* the words source 3 finds in the items when its loop is never left early
RECURSIVE AllOtherWords(_)
AllOtherWords(items) ==
    IF Len(items) = 0 THEN <<>>
    ELSE OtherKeyWords(items[1][1], items[1][2]) \o AllOtherWords(Tail(items))

NonBlank(w) == w # ""

\* the non-empty phrases source n yields for the header of t.st
SourceCandidates(n) ==
    CASE n = 1 -> TagFrequencyCandidates(MetaGet(header, "ss_tag_frequency"))
      [] n = 2 -> TrainedCandidates(MetaGet(header, "ss_trained_words"))
      [] OTHER -> SelectSeq(AllOtherWords(header.items), NonBlank)

\* the first source that yields a non-empty phrase, 0 when none does
WinningSource ==
    IF Len(SourceCandidates(1)) > 0 THEN 1
    ELSE IF Len(SourceCandidates(2)) > 0 THEN 2
    ELSE IF Len(SourceCandidates(3)) > 0 THEN 3
    ELSE 0

\* the phrases of the result all come from source n
ResultFrom(n) ==
    \A i \in DOMAIN result.words :
        \E c \in DOMAIN SourceCandidates(n) : SourceCandidates(n)[c] = result.words[i]

\* C15: the sources are tried in the order ss_tag_frequency, ss_trained_words,
\* other keys; the result holds phrases of the first source that yields a
\* non-empty phrase and of no other, a source that fails to parse yielding
\* nothing; when no source yields a phrase the result is empty.
C15_SourcePrecedence ==
    ReadsHeader
        => /\ WinningSource = 0 => result.words = <<>>
           /\ WinningSource # 0
                 => /\ ResultFrom(WinningSource)
                    /\ MaxWordsArg >= 1 => result.words # <<>>

\* The precedence does hold for the calls that ask for at least one phrase
\* on the headers in which no trigger key holds a blank JSON string.
C15_SourcePrecedencePositive ==
    (/\ ReadsHeader
     /\ MaxWordsArg >= 1
     /\ \A n \in DOMAIN header.items :
           OtherKeyWords(header.items[n][1], header.items[n][2]) # <<"">>)
        => /\ WinningSource = 0 => result.words = <<>>
           /\ WinningSource # 0 => (ResultFrom(WinningSource) /\ result.words # <<>>)

----------------------------------------------------------------------------
(* C16 *)

\* no phrase twice
NoRepeat(words) == \A i, j \in DOMAIN words : i # j => words[i] # words[j]

\* C16: for every header and every max_words >= 0, max_words = 0 included,
\* the list extract_trigger_words returns has at most max_words elements and
\* holds no phrase twice.
C16_BoundAndUniqueness ==
    result.kind = "extract"
        => /\ Len(result.words) <= MaxWordsArg
           /\ NoRepeat(result.words)

\* The bound and the uniqueness do hold for every max_words >= 1.
C16_BoundAndUniquenessPositive ==
    (result.kind = "extract" /\ MaxWordsArg >= 1)
        => /\ Len(result.words) <= MaxWordsArg
           /\ NoRepeat(result.words)

----------------------------------------------------------------------------
(* C17 *)

\* the words without their later repetitions, first-seen order kept
RECURSIVE FirstOccurrences(_, _)
FirstOccurrences(words, seen) ==
    IF Len(words) = 0 THEN seen
    ELSE FirstOccurrences(Tail(words),
                          IF \E n \in DOMAIN seen : seen[n] = words[1]
                          THEN seen ELSE Append(seen, words[1]))

\* C17: the result is the first max_words elements of the winning source's
\* candidates after later duplicates are removed; so a winning source with
\* at least max_words distinct phrases gives exactly max_words phrases, also
\* when candidates are equal after trimming.
C17_DeduplicateThenTruncate ==
    (ReadsHeader /\ WinningSource # 0)
        => result.words =
             Take(FirstOccurrences(SourceCandidates(WinningSource), <<>>), MaxWordsArg)

----------------------------------------------------------------------------
(* C18 *)

\* the identifier of the served call resolves to no path
Unresolved == resolve_lora_full_path(Identifier) = ""

\* the file the identifier resolves to has no readable metadata mapping, or
\* an empty one
NoParseableMetadata ==
    \/ Metadata(resolve_lora_full_path(Identifier)).kind # "mapping"
    \/ Metadata(resolve_lora_full_path(Identifier)).items = <<>>

\* C18: extract_trigger_words never raises, whatever the identifier and the
\* header are, and returns the empty list when the identifier cannot be
\* resolved or the file has no parseable metadata.
C18_ExtractNeverRaises ==
    result.kind = "extract"
        => /\ ~result.raised
           /\ (Unresolved \/ NoParseableMetadata) => result.words = <<>>

\* t.st resolves and its header gives a value that is no mapping: the
\* AttributeError is caught and the empty list returned
C18_Witness ==
    /\ result.kind = "extract"
    /\ Identifier = "t.st"
    /\ ~Unresolved
    /\ header = NotMapping
    /\ ExtractBody(Identifier, MaxWordsArg).raised
    /\ ~result.raised
    /\ result.words = <<>>

----------------------------------------------------------------------------
(* C19 *)

\* the arguments of the build_prompt call being served
BundleArg == kwargs[1].val
TriggerWordsArg == kwargs[2].val
PositiveOverrideArg == kwargs[3].val
NegativeOverrideArg == kwargs[4].val

\* the segment is disabled, or its text is empty or whitespace only
Inactive(segment) ==
    \/ segment.enabled = FalseV
    \/ \A i \in DOMAIN segment.text : segment.text[i] \in Whitespace

\* the list without its n-th segment
Without(segments, n) ==
    SubSeq(segments, 1, n - 1) \o SubSeq(segments, n + 1, Len(segments))

\* (positive, negative, combined) of the call with the n-th segment removed
OutputsWithout(n) ==
    build_prompt(Bundle(BundleArg.kind, Without(BundleArg.segments, n)),
                 TriggerWordsArg, PositiveOverrideArg, NegativeOverrideArg).words

\* C19: whenever build_prompt has returned, removing any one segment of
\* the bundle that is disabled or blank gives the same positive, negative
\* and combined outputs; in particular the variables of such a segment do
\* not reach the text of the other segments.
C19_InactiveSegmentsContributeNothing ==
    result.kind = "build_prompt" =>
        \A n \in DOMAIN BundleArg.segments :
            Inactive(BundleArg.segments[n]) => OutputsWithout(n) = result.words

\* the part of C19 that the code keeps: a disabled or blank segment that
\* declares no variables can be removed without changing the outputs
C19_InactiveWithoutVariables ==
    result.kind = "build_prompt" =>
        \A n \in DOMAIN BundleArg.segments :
            (Inactive(BundleArg.segments[n])
             /\ DOMAIN BundleArg.segments[n].variables = {})
            => OutputsWithout(n) = result.words

----------------------------------------------------------------------------
(* C20 *)

\* the arguments of the _substitute_variables call being served
TextArg == kwargs[1].val
VariablesArg == kwargs[2].val

\* the occurrence of a name in syntax k: {{name}}, ${name} or {name}
Occurrence(k, name) == Opening(k) \o name \o Closing(k)

\* text without braces and dollar signs holds no occurrence of a variable
PlainText(text) == \A i \in DOMAIN text : text[i] \notin {"{", "}", "$"}

\* C20: whenever _substitute_variables has returned for a text that is one
\* occurrence of a variable of the context between plain text, the result
\* is the text with the occurrence replaced by the variable's value, the
\* value taken as it is: what a replacement inserted is not scanned again
\* ("{{a}}" with {a: "{b}", b: "X"} gives "{b}", and "{{x}}" with
\* {x: "{{x}}"} gives "{{x}}").
C20_NoRecursiveExpansion ==
    result.kind = "substitute" =>
        \A k \in 1..3, name \in DOMAIN VariablesArg :
            \A i \in 1..Len(TextArg) : \A j \in i..Len(TextArg) :
                (/\ SubSeq(TextArg, i, j) = Occurrence(k, name)
                 /\ PlainText(SubSeq(TextArg, 1, i - 1))
                 /\ PlainText(SubSeq(TextArg, j + 1, Len(TextArg))))
                => result.text = Cat(SubSeq(TextArg, 1, i - 1) \o VariablesArg[name]
                                     \o SubSeq(TextArg, j + 1, Len(TextArg)))

\* the part of C20 that the code keeps: a value that holds no occurrence
\* of a variable is inserted once
C20_PlainValueInsertedOnce ==
    result.kind = "substitute" =>
        \A k \in 1..3, name \in DOMAIN VariablesArg :
            \A i \in 1..Len(TextArg) : \A j \in i..Len(TextArg) :
                (/\ SubSeq(TextArg, i, j) = Occurrence(k, name)
                 /\ PlainText(VariablesArg[name])
                 /\ PlainText(SubSeq(TextArg, 1, i - 1))
                 /\ PlainText(SubSeq(TextArg, j + 1, Len(TextArg))))
                => result.text = Cat(SubSeq(TextArg, 1, i - 1) \o VariablesArg[name]
                                     \o SubSeq(TextArg, j + 1, Len(TextArg)))

----------------------------------------------------------------------------
(* C21 *)

\* the text returned by the _substitute_variables call being served
SubstitutedText == result.words

\* positions i..j of the text hold an occurrence {{n}}, ${n} or {n} (syntax
\* k) of a name n
OccursAt(text, k, i, j) ==
    LET name == SubSeq(text, i + Len(Opening(k)), j - Len(Closing(k)))
    IN  /\ j - i + 1 > Len(Opening(k)) + Len(Closing(k))
        /\ SubSeq(text, i, j) = Occurrence(k, name)
        /\ IsName(name)
        /\ \A c \in 1..Len(name) : IsWordChar(name[c]) \/ name[c] = "."

NameAt(text, k, i, j) == SubSeq(text, i + Len(Opening(k)), j - Len(Closing(k)))

\* s is a contiguous part of text
IsPartOf(s, text) ==
    \E p \in 1..(Len(text) - Len(s) + 1) : SubSeq(text, p, p + Len(s) - 1) = s

\* the occurrences in the text of names the context has no entry for
UnknownOccurrences ==
    {o \in (1..3) \X (1..Len(TextArg)) \X (1..Len(TextArg)) :
        /\ o[2] <= o[3]
        /\ OccursAt(TextArg, o[1], o[2], o[3])
        /\ NameAt(TextArg, o[1], o[2], o[3]) \notin DOMAIN VariablesArg}

KnownOccurrences ==
    {o \in (1..3) \X (1..Len(TextArg)) \X (1..Len(TextArg)) :
        /\ o[2] <= o[3]
        /\ OccursAt(TextArg, o[1], o[2], o[3])
        /\ NameAt(TextArg, o[1], o[2], o[3]) \in DOMAIN VariablesArg}

\* C21: whenever _substitute_variables has returned, it did not raise,
\* every occurrence {{n}}, ${n} or {n} of a name n without an entry in the
\* context is part of the returned text as it was written, and when no
\* name occurring in the text has an entry the returned text is the text.
C21_UnknownVariablesVerbatim ==
    result.kind = "substitute" =>
        /\ ~result.raised
        /\ \A o \in UnknownOccurrences :
              IsPartOf(SubSeq(TextArg, o[2], o[3]), SubstitutedText)
        /\ KnownOccurrences = {} => SubstitutedText = TextArg

\* C21 witness: "${u}{{a}}" was substituted under {a: "Y"}: the occurrence
\* of the unknown u stayed and the one of a was replaced
C21_Witness ==
    /\ result.kind = "substitute"
    /\ UnknownOccurrences # {}
    /\ KnownOccurrences # {}
    /\ result.text = "${u}Y"

----------------------------------------------------------------------------
(* C22 *)

\* the variable context of the build_prompt call being served
ContextOfCall == build_variable_context(TriggerWordsArg, parse_bundle(BundleArg))

\* the segment is enabled and its text is not blank
Active(segment) ==
    /\ segment.enabled \in {Absent, TrueV}
    /\ \E i \in DOMAIN segment.text : segment.text[i] \notin Whitespace

\* the weight of the segment is 1.0 (the default, 1.0 or the integer 1)
WeightIsOne(segment) == segment.weight \in {Absent, Num("1.0"), Num("1")}

\* the trimmed text of the segment with the variables of the call
\* substituted
SubstitutedPart(segment) == substitute_variables(StripText(segment.text), ContextOfCall)

\* what an active segment contributes according to C22
WeightedPart(segment) ==
    IF WeightIsOne(segment) THEN SubstitutedPart(segment)
    ELSE <<"(">> \o SubstitutedPart(segment) \o <<":">> \o FormatWeight(segment.weight)
         \o <<")">>

\* the active segments of the bundle that go to the negative output
\* (negative = TRUE) or to the positive output (negative = FALSE)
ActiveOn(negative) ==
    {n \in DOMAIN BundleArg.segments :
        /\ Active(BundleArg.segments[n])
        /\ (BundleArg.segments[n].type = "negative") = negative}

\* C22: whenever build_prompt has returned for a bundle in which exactly
\* one active segment goes to a side that has no override, the output of
\* that side is exactly the segment's substituted text when its weight is
\* 1.0 and exactly "(<substituted text>:<weight with two decimals>)"
\* otherwise.
C22_WeightWrapping ==
    result.kind = "build_prompt" =>
        /\ \A n \in ActiveOn(FALSE) :
              (ActiveOn(FALSE) = {n} /\ StripText(PositiveOverrideArg) = <<>>)
              => result.words[1] = Cat(WeightedPart(BundleArg.segments[n]))
        /\ \A n \in ActiveOn(TRUE) :
              (ActiveOn(TRUE) = {n} /\ StripText(NegativeOverrideArg) = <<>>)
              => result.words[2] = Cat(WeightedPart(BundleArg.segments[n]))

\* C22 witness: "{a}" with weight 0.8 under {a: "Y"} gave "(Y:0.80)" and
\* "{a}" with weight 1 gave "Y"
C22_Witness ==
    /\ result.kind = "build_prompt"
    /\ Len(BundleArg.segments) = 2
    /\ ActiveOn(TRUE) = {} /\ ActiveOn(FALSE) = {2}
    /\ ~WeightIsOne(BundleArg.segments[2])
    /\ result.words[1] = "(Y:0.80)"

\* C22 witness of the unwrapped case: weight 1.004 is wrapped as 1.00 and
\* the integer weight 1 is not wrapped
C22_WitnessUnwrapped ==
    /\ result.kind = "build_prompt"
    /\ Len(BundleArg.segments) = 2
    /\ BundleArg.segments[1].weight = Num("1")
    /\ BundleArg.segments[2].weight = Num("1.004")
    /\ result.words = <<"{a}", "(k:1.00)", "{a}\nNegative: (k:1.00)">>

----------------------------------------------------------------------------
(* C23 *)

\* the parts, in input order, of the active segments that go to the
\* negative (negative = TRUE) or to the positive output
RECURSIVE PartsInOrder(_, _)
PartsInOrder(segments, negative) ==
    IF Len(segments) = 0 THEN <<>>
    ELSE (IF Active(segments[1]) /\ ((segments[1].type = "negative") = negative)
          THEN <<WeightedPart(segments[1])>> ELSE <<>>)
         \o PartsInOrder(Tail(segments), negative)

\* parts joined with ", "
RECURSIVE CommaJoined(_)
CommaJoined(parts) ==
    IF Len(parts) = 0 THEN ""
    ELSE IF Len(parts) = 1 THEN Cat(parts[1])
    ELSE Cat(parts[1]) \o ", " \o CommaJoined(Tail(parts))

\* the positive and the negative output according to C23
JoinedOn(negative) == CommaJoined(PartsInOrder(parse_bundle(BundleArg), negative))

\* the joined parts of a side are empty or whitespace only
BlankJoin(negative) ==
    \A n \in DOMAIN PartsInOrder(parse_bundle(BundleArg), negative) :
        \A i \in DOMAIN PartsInOrder(parse_bundle(BundleArg), negative)[n] :
            PartsInOrder(parse_bundle(BundleArg), negative)[n][i] \in Whitespace

NoOverrides ==
    StripText(PositiveOverrideArg) = <<>> /\ StripText(NegativeOverrideArg) = <<>>

\* C23: whenever build_prompt has returned for a call without overrides,
\* positive is the ", "-join in input order of the parts of the active
\* segments that are not negative, negative is the same join over the
\* negative segments, and combined is positive when negative is blank and
\* "<positive>\nNegative: <negative>" otherwise.
C23_RoutingAndCombination ==
    (result.kind = "build_prompt" /\ NoOverrides) =>
        /\ result.words[1] = JoinedOn(FALSE)
        /\ result.words[2] = JoinedOn(TRUE)
        /\ result.words[3] = IF BlankJoin(TRUE) THEN result.words[1]
                              ELSE result.words[1] \o "\nNegative: " \o result.words[2]

\* the part of C23 that the code keeps: the two joins, and the combined
\* output with "empty" in the place of "blank"
C23_RoutingAndCombinationNonEmpty ==
    (result.kind = "build_prompt" /\ NoOverrides) =>
        /\ result.words[1] = JoinedOn(FALSE)
        /\ result.words[2] = JoinedOn(TRUE)
        /\ result.words[3] = IF result.words[2] = "" THEN result.words[1]
                              ELSE result.words[1] \o "\nNegative: " \o result.words[2]

----------------------------------------------------------------------------
(* C24 *)

\* the override is neither empty nor whitespace only
Supplied(override) == \E i \in DOMAIN override : override[i] \notin Whitespace

\* C24 as stated: whenever build_prompt has returned, the output of a side
\* with a non-blank override is the override string, and the output of a
\* side whose override is empty or whitespace only is the join assembled
\* from the segments.
C24_OverrideReplaces ==
    result.kind = "build_prompt" =>
        /\ result.words[1] = IF Supplied(PositiveOverrideArg)
                              THEN Cat(PositiveOverrideArg) ELSE JoinedOn(FALSE)
        /\ result.words[2] = IF Supplied(NegativeOverrideArg)
                              THEN Cat(NegativeOverrideArg) ELSE JoinedOn(TRUE)

\* C24 amended: whenever build_prompt has returned, the output of a side
\* with a non-blank override is the override string without its leading
\* and trailing whitespace, whatever the segments and the variables are and
\* with its braces left as they are, and the output of a side whose
\* override is empty or whitespace only is the join assembled from the
\* segments.
C24_OverrideReplacesTrimmed ==
    result.kind = "build_prompt" =>
        /\ result.words[1] = IF Supplied(PositiveOverrideArg)
                              THEN Cat(StripText(PositiveOverrideArg)) ELSE JoinedOn(FALSE)
        /\ result.words[2] = IF Supplied(NegativeOverrideArg)
                              THEN Cat(StripText(NegativeOverrideArg)) ELSE JoinedOn(TRUE)

\* C24 witness: the override " ov" replaced a positive join that was not
\* empty while the negative side was assembled from a segment
C24_Witness ==
    /\ result.kind = "build_prompt"
    /\ PositiveOverrideArg = <<" ", "o", "v">>
    /\ JoinedOn(FALSE) # ""
    /\ result.words[1] = "ov"
    /\ result.words[2] = JoinedOn(TRUE)
    /\ result.words[2] # ""

\* C24 witness of an override that holds a variable: "{a}" stayed "{a}"
\* although the context maps a to "Y"
C24_WitnessNoSubstitution ==
    /\ result.kind = "build_prompt"
    /\ NegativeOverrideArg = <<"{", "a", "}">>
    /\ <<"a">> \in DOMAIN ContextOfCall
    /\ result.words[2] = "{a}"

----------------------------------------------------------------------------
(* C25 *)

\* the dict returned by the _build_variable_context call being served and
\* the arguments of the call
BuiltContext == result.log[1]
ContextTriggerWords == kwargs[1].val
ContextSegments == kwargs[2].val

\* the non-empty phrases t1..tn of the comma-separated trigger string
Phrases == StrippedPieces(SplitOn(ContextTriggerWords, ",", <<>>))

\* the name trigger.k
IndexedName(k) == TriggerPrefix \o Decimal(k)

\* no segment of the call declares a variable
NoDeclaredVariables ==
    \A n \in DOMAIN ContextSegments : DOMAIN ContextSegments[n].variables = {}

\* C25: whenever _build_variable_context has returned for a trigger string
\* with phrases t1..tn (n >= 1) and segments that declare no variables,
\* the context maps trigger.k to tk for every k in 1..n and trigger.all to
\* the ", "-join of t1..tn.
C25_IndexedTriggersPositional ==
    (result.kind = "context" /\ NoDeclaredVariables /\ Len(Phrases) >= 1) =>
        /\ \A k \in 1..Len(Phrases) :
              /\ IndexedName(k) \in DOMAIN BuiltContext
              /\ BuiltContext[IndexedName(k)] = Phrases[k]
        /\ TriggerPrefix \o <<"a", "l", "l">> \in DOMAIN BuiltContext
        /\ BuiltContext[TriggerPrefix \o <<"a", "l", "l">>] = JoinTexts(Phrases)

\* the first word of a phrase is the index of another phrase
IndexAsFirstWord ==
    \E n \in 1..Len(Phrases), k \in 1..Len(Phrases) : FirstWord(Phrases[n]) = Decimal(k)

\* the part of C25 that the code keeps: the same when no phrase starts
\* with a number that is the index of a phrase
C25_PositionalWithoutIndexWords ==
    (result.kind = "context" /\ NoDeclaredVariables /\ Len(Phrases) >= 1
     /\ ~IndexAsFirstWord) =>
        /\ \A k \in 1..Len(Phrases) :
              /\ IndexedName(k) \in DOMAIN BuiltContext
              /\ BuiltContext[IndexedName(k)] = Phrases[k]
        /\ TriggerPrefix \o <<"a", "l", "l">> \in DOMAIN BuiltContext
        /\ BuiltContext[TriggerPrefix \o <<"a", "l", "l">>] = JoinTexts(Phrases)

----------------------------------------------------------------------------
(* C26 *)

\* a step in which the endpoint of that name answered
Answers(endpoint) == result.kind = "idle" /\ result'.kind = endpoint

\* the body or query of the request the step served
Request == kwargs'[1]

\* the list without its k-th record
Dropped(entries, k) ==
    SubSeq(entries, 1, k - 1) \o SubSeq(entries, k + 1, Len(entries))

\* what one request may do to the history list
HistoryStep ==
    /\ Len(history') <= max_history
    /\ Answers("add_prompt_history") =>
          /\ Len(history') =
                IF Len(history) < max_history THEN Len(history) + 1
                ELSE max_history
          /\ history'[1] = HistoryEntry(result'.id[2],
                                        TextField(Request, "positive"),
                                        TextField(Request, "negative"))
          /\ \A i \in 2..Len(history') : history'[i] = history[i - 1]
    /\ Answers("delete_prompt_history") =>
          \/ history' = history
          \/ \E k \in 1..Len(history) :
                /\ history[k].id = Field(Request, "id")[2]
                /\ history' = Dropped(history, k)
    /\ Answers("clear_prompt_history") => history' = <<>>
    /\ Answers("search_prompt_history") => history' = history
    /\ result'.kind = "idle" => history' = history

\* C26: in every step of a store that holds at most 100 history records,
\* the history holds at most 100 records afterwards; an add puts the new
\* record first, keeps the others in their order one place further back
\* and, at 100 records, drops the last one; a delete removes one record
\* and keeps the order of the others; a clear empties the list.
C26_HistoryOrderingAndCap == [][HistoryStep]_vars

\* C26 witness: an add at the cap has put its record first and evicted
\* the oldest of the 100 records
C26_Witness ==
    /\ result.kind = "add_prompt_history"
    /\ Len(history) = max_history
    /\ history[1].id = result.id[2]
    /\ history[max_history].id = "hist_old_2"

----------------------------------------------------------------------------
(* C27 *)

\* the endpoints that change a store and require a field, with the fields
\* they require
RequiredFields ==
    [save_template |-> {"name"},
     delete_template |-> {"name"},
     delete_template_by_name |-> {"name"},
     add_prompt_favorite |-> {"name"},
     delete_prompt_favorite |-> {"id"},
     rename_prompt_favorite |-> {"id", "name"},
     delete_prompt_history |-> {"id"},
     save_prompt_template |-> {"name"},
     delete_prompt_template |-> {"name"},
     rename_prompt_template |-> {"old_name", "new_name"}]

\* the member is not in the body, is null or is the empty string
MissingOrEmpty(value) == value \in {Absent, NoneV, Str("")}

\* the step served a request that lacks a field its endpoint requires
LacksRequiredField ==
    \E endpoint \in DOMAIN RequiredFields :
        /\ Answers(endpoint)
        /\ \E field \in RequiredFields[endpoint] :
              MissingOrEmpty(Request[field])

\* C27: for every request to save_template, delete_template,
\* delete_template_by_name, add/delete/rename_prompt_favorite,
\* delete_prompt_history and save/delete/rename_prompt_template in which a
\* required field is missing, null or empty, the response body has an
\* "error" string and the history, the favorites, the prompt templates,
\* the LoRA templates and the files are after the request what they were
\* before it.
C27_CallerErrorsMutateNothing ==
    [][LacksRequiredField =>
          /\ result'.error[1] = "str"
          /\ result'.error[2] # ""
          /\ result'.success = Absent
          /\ UNCHANGED <<history, favorites, templates, lora_templates,
                         files>>]_vars

\* C27 witness: a rename of the existing template t1 without a new name was
\* rejected and t1 is still there
C27_Witness ==
    /\ result.kind = "rename_prompt_template"
    /\ kwargs[1].old_name = Str("t1")
    /\ kwargs[1].new_name = Str("")
    /\ result.error = Str("Both old and new names required")
    /\ "t1" \in DOMAIN templates

----------------------------------------------------------------------------
(* C28 *)

\* search_prompt_history has answered with a list of results
Searched == result.kind = "search_prompt_history" /\ result.error = Absent

\* the query and the limit of the search that was answered
SearchQuery ==
    IF kwargs[1].q[1] = "absent" THEN <<>> ELSE kwargs[1].q[2]

SearchLimit == ParseInt(QueryParam(kwargs[1], "limit", "20")).value

\* the text holds the query, letter case set aside
HoldsQuery(text) ==
    \E p \in 1..(Len(text) - Len(SearchQuery) + 1) :
        \A k \in 1..Len(SearchQuery) :
            LowerChar(text[p + k - 1]) = LowerChar(SearchQuery[k])

\* the positions of the history records that hold the query
MatchingPositions ==
    {i \in DOMAIN history :
        HoldsQuery(history[i].positive) \/ HoldsQuery(history[i].negative)}

\* the results are the first records that hold the query, in history order
FirstMatching ==
    \A k \in DOMAIN result.results :
        \E i \in MatchingPositions :
            /\ result.results[k] = history[i]
            /\ Cardinality({j \in MatchingPositions : j < i}) = k - 1

\* C28: whenever search_history has returned for a limit >= 0, the result
\* holds at most limit records, each holds the query case-insensitively in
\* its positive or negative text, and they are the first such records of
\* the history in its order.
C28_SearchRespectsLimit ==
    (Searched /\ SearchLimit >= 0) =>
        /\ Len(result.results) <= SearchLimit
        /\ FirstMatching

\* the part of C28 that the code keeps: the same for a limit >= 1
C28_SearchRespectsPositiveLimit ==
    (Searched /\ SearchLimit >= 1) =>
        /\ Len(result.results) <= SearchLimit
        /\ FirstMatching

\* a search with a limit of 1 or more that found as many records as the
\* limit allows, and left a matching record out
C28_WitnessPositiveLimit ==
    /\ Searched
    /\ SearchLimit >= 1
    /\ Len(result.results) = SearchLimit
    /\ Cardinality(MatchingPositions) > SearchLimit

----------------------------------------------------------------------------
(* C29 *)

\* the endpoints whose "success" is what save_template, delete_template,
\* rename_template, rename_favorite and clear_history returned
FailureReporting ==
    {"save_prompt_template", "delete_prompt_template",
     "rename_prompt_template", "rename_prompt_favorite",
     "clear_prompt_history"}

\* the step served a call of one of them that returned False
ReportsFailure ==
    \E endpoint \in FailureReporting :
        Answers(endpoint) /\ result'.success = FalseV

\* C29: in every step in which save_template, delete_template,
\* rename_template, rename_favorite or clear_history returns False, the
\* templates, the favorites and the history in memory are after the call
\* what they were before it.
C29_FailureLeavesStoreUnchanged ==
    [][ReportsFailure => UNCHANGED <<history, favorites, templates>>]_vars

\* the files hold what is in memory
InSync(h, f, t, disk) == disk = InitialFiles(h, f, t)

\* the step served a call that found nothing to delete or rename
NothingToDo ==
    \/ /\ Answers("delete_prompt_template")
       /\ result'.error = Absent
       /\ Request.name[2] \notin DOMAIN templates
    \/ /\ Answers("rename_prompt_template")
       /\ result'.error = Absent
       /\ \/ Request.old_name[2] \notin DOMAIN templates
          \/ Request.new_name[2] \in DOMAIN templates
    \/ /\ Answers("rename_prompt_favorite")
       /\ result'.error = Absent
       /\ \A i \in DOMAIN favorites : favorites[i].id # Request.id[2]

\* the part of C29 that the code keeps: a call that returns False because
\* there is nothing to delete or rename leaves memory and files as they
\* were
C29_NothingToDoLeavesStoreUnchanged ==
    [][NothingToDo =>
          /\ result'.success = FalseV
          /\ UNCHANGED <<history, favorites, templates, files>>]_vars

\* the other part: a call that returns False has written nothing new to a
\* file, which is as it was or unreadable
C29_FailureWritesNothing ==
    [][ReportsFailure =>
          \A f \in DOMAIN files : files'[f] \in {files[f], NoFile}]_vars

\* a save of template t2 whose write failed was answered with False, and
\* t2 is in memory and not in the file
C29_WitnessDiverged ==
    /\ result.kind = "save_prompt_template"
    /\ result.success = FalseV
    /\ "t2" \in DOMAIN templates
    /\ files.templates.readable
    /\ "t2" \notin DOMAIN files.templates.data

\* a rename of a template that is not there was answered with False
C29_WitnessNotFound ==
    /\ result.kind = "rename_prompt_template"
    /\ result.success = FalseV
    /\ kwargs[1].old_name = Str("t2")
    /\ "t2" \notin DOMAIN templates
    /\ InSync(history, favorites, templates, files)

----------------------------------------------------------------------------
(* C30 *)

\* what a rename_template(old, new) call may do to the templates
RenameStep(old, new) ==
    IF old \in DOMAIN templates /\ new \notin DOMAIN templates
    THEN /\ DOMAIN templates' = (DOMAIN templates \ {old}) \cup {new}
         /\ old \notin DOMAIN templates'
         /\ templates'[new].name = new
         /\ templates'[new].segments = templates[old].segments
         /\ \A other \in DOMAIN templates \ {old} :
               templates'[other] = templates[other]
    ELSE /\ templates' = templates
         /\ result'.success = FalseV

\* C30: in every step in which rename_template(old, new) is called, the
\* templates change only when old is there and new is not; then the record
\* that was under old is under new with its name field equal to new, old
\* is gone and every other template is as before; when old is missing,
\* new is taken or old equals new, the templates are unchanged and the
\* call returns False.
C30_RenameNeverLosesOrOverwrites ==
    [][(Answers("rename_prompt_template") /\ result'.error = Absent) =>
          RenameStep(Request.old_name[2], Request.new_name[2])]_vars

\* C30 witness: t1 was renamed to t2
C30_Witness ==
    /\ result.kind = "rename_prompt_template"
    /\ result.success = TrueV
    /\ kwargs[1].old_name = Str("t1")
    /\ kwargs[1].new_name = Str("t2")
    /\ DOMAIN templates = {"t2"}
    /\ templates["t2"] = TemplateEntry("t2", SegmentsA)

\* a rename of t1 to the name of the existing template t2 was refused and
\* both are still there
C30_WitnessTaken ==
    /\ result.kind = "rename_prompt_template"
    /\ result.success = FalseV
    /\ kwargs[1].old_name = Str("t1")
    /\ kwargs[1].new_name = Str("t2")
    /\ DOMAIN templates = {"t1", "t2"}
    /\ templates["t1"] = TemplateEntry("t1", SegmentsA)
    /\ templates["t2"].name = "t2"

====
